---------------------------- MODULE Spec2Model ----------------------------
(***************************************************************************)
(* A model of Source/Dynamite/marian.h, the emulation of the Marian API on *)
(* top of CNTK: the shape and axis mappers, the Options dictionary, the    *)
(* operators whose meaning depends on the axis convention, the             *)
(* ExpressionGraph parameter table and the OptimizerWrapper.               *)
(***************************************************************************)
EXTENDS Integers, Sequences, FiniteSets, TLC

VARIABLES
    \* ---- ExpressionGraph (one entry per graph instance) and the engine's heap
    m_allParametersMap,   \* graph -> [name -> parameter handle]   (std::map)
    m_allParameters,      \* graph -> sequence of parameter handles (std::vector)
    m_allGradients,       \* graph -> [parameter handle -> gradient] (unordered_map)
    store,                \* parameter handle -> [shape, value]: the CNTK::Parameter objects
    nextHandle,           \* the next handle the engine allocates
    m_learner,            \* OptimizerWrapper::m_learner: unbound, or the learner's parameters
    learnersCreated,      \* number of times m_LazyCreateLearner has run
    call,                 \* the most recent call on the graph / optimizer and its outcome
    m_inferenceOnly,      \* graph -> bool
    \* ---- shape and axis mappers applied to one expression
    npShape,              \* the Marian Shape the expression is built from
    x,                    \* the CNTK view shape (NDShape) of the expression x
    mpc,                  \* "shape": x not built yet; "expr": x built; "done": a mapper has run
    mcall,                \* the mapper call made on x and its outcome
    \* ---- Options
    opts,                 \* Options object -> its dictionary [wide key -> DictionaryValue]
    ocall,                \* the most recent call on an Options object
    \* ---- operators and cost functions applied once to drawn arguments
    args,                 \* the function to call and its arguments
    ecall,                \* the call made with args and its outcome
    seed                  \* the static int seed of InternalOps::DropoutMask

graphVars  == <<m_allParametersMap, m_allParameters, m_allGradients, store,
                nextHandle, m_learner, learnersCreated, call, m_inferenceOnly>>
mapperVars == <<npShape, x, mpc, mcall>>

optionVars == <<opts, ocall>>

operatorVars == <<args, ecall, seed>>

vars == <<graphVars, mapperVars, optionVars, operatorVars>>

-----------------------------------------------------------------------------
(* Bounds of the model *)

MaxExtent == 2      \* the first extent of a requested parameter shape is in 1..MaxExtent
ValMod    == 2      \* parameter values are integers modulo ValMod
MaxRank   == 6      \* ranks of the shapes handed to the mappers range over 0..MaxRank
MaxAxes   == 2      \* ToCNTKAxes is given at most MaxAxes axis indices
MaxAxesRank == 3    \* ... for expressions of rank 0..MaxAxesRank
MaxVal    == 2      \* the payload of a dictionary value ranges over 1..MaxVal

-----------------------------------------------------------------------------
(* Generic helpers *)

Range(s) == { s[i] : i \in DOMAIN s }

RECURSIVE Product(_)
Product(s) == IF s = <<>> THEN 1 ELSE Head(s) * Product(Tail(s))

\* CNTK::NDShape::TotalSize
TotalSize(viewShape) == Product(viewShape)

-----------------------------------------------------------------------------
(* mappers *)

\* NDShape(shape.rbegin(), shape.rend()): the range constructor appends the
\* elements met when walking the Shape from its last extent to its first.
RECURSIVE CopyReversed(_, _)
CopyReversed(shape, k) ==
    IF k = 0 THEN <<>> ELSE <<shape[k]>> \o CopyReversed(shape, k - 1)

\* ToNDShape copying from begin() to end()
ToNDShape_NoReverse(shape) == shape

ToNDShape(shape) == CopyReversed(shape, Len(shape))

\* ShapeProxy::operator Shape: shape.resize(rank), then
\* shape.set(i, m_viewShape[rank - 1 - i]) for i = 0 .. rank-1
\* (C++ index k is position k + 1 of a sequence here)
ShapeProxyToShape(m_viewShape) ==
    LET rank == Len(m_viewShape)
    IN  [k \in 1..rank |-> m_viewShape[(rank - 1 - (k - 1)) + 1]]

\* CNTK::NDShape::operator[] (C++ index k is position k + 1 of a sequence here)
NDShapeAt(viewShape, k) == viewShape[k + 1]

HasAxis(viewShape, k) == k \in 0..(Len(viewShape) - 1)

\* a read of NDShape::operator[] past the rank: it throws, or yields any value
OutOfRangeRead == {[threw |-> TRUE, value |-> 0]}
                  \cup {[threw |-> FALSE, value |-> v] : v \in 0..2}

\* the index computation of ShapeProxy::operator[] without the flip
ShapeProxyAxis_NoFlip(m_viewShape, index) ==
    IF index < 0 THEN -(index + 1) ELSE index

\* the index ShapeProxy::operator[] hands to m_viewShape[...].  The size_t
\* difference rank - (index + 1) wraps for index >= rank; it is negative
\* here, and out of range either way.
ShapeProxyAxis(m_viewShape, index) ==
    LET rank == Len(m_viewShape)
    IN  IF index < 0 THEN -(index + 1) ELSE rank - (index + 1)

\* ShapeProxy::operator[] for an index the shape has an extent for
ShapeProxyIndex(m_viewShape, index) ==
    NDShapeAt(m_viewShape, ShapeProxyAxis(m_viewShape, index))

NoAxis == [threw |-> TRUE, axis |-> 0]

\* ToCNTKAxis without the test axisIndex >= rank
ToCNTKAxis_NoUpperCheck(viewShape, axisIndex) ==
    LET rank == Len(viewShape)
        idx  == IF axisIndex < 0 THEN axisIndex + rank ELSE axisIndex
    IN  IF idx < 0
        THEN NoAxis
        ELSE [threw |-> FALSE, axis |-> rank - 1 - idx]

\* mappers::ToCNTKAxis on an expression of view shape viewShape.  rank is a
\* size_t; for the small ranks and indices here "axisIndex += rank" is the
\* integer sum, and the unsigned comparison axisIndex >= rank is evaluated
\* only when axisIndex >= 0, where it is the integer comparison.
ToCNTKAxis(viewShape, axisIndex) ==
    LET rank == Len(viewShape)
        idx  == IF axisIndex < 0 THEN axisIndex + rank ELSE axisIndex
    IN  IF idx < 0 \/ idx >= rank
        THEN NoAxis
        ELSE [threw |-> FALSE, axis |-> rank - 1 - idx]

\* CNTK::Transform(axisIndices, ToCNTKAxis(x, .)): element by element, in order
Transform(viewShape, axisIndices) ==
    [k \in 1..Len(axisIndices) |-> ToCNTKAxis(viewShape, axisIndices[k])]

\* std::reverse
Reverse(s) == [k \in 1..Len(s) |-> s[Len(s) + 1 - k]]

NoAxes == [threw |-> TRUE, axes |-> <<>>]

\* ToCNTKAxes without the std::reverse
ToCNTKAxes_NoReverse(viewShape, axisIndices) ==
    LET res == Transform(viewShape, axisIndices)
    IN  IF \E k \in DOMAIN res : res[k].threw
        THEN NoAxes
        ELSE [threw |-> FALSE, axes |-> [k \in DOMAIN res |-> res[k].axis]]

\* mappers::ToCNTKAxes: a throwing ToCNTKAxis ends the call
ToCNTKAxes(viewShape, axisIndices) ==
    LET res == Transform(viewShape, axisIndices)
    IN  IF \E k \in DOMAIN res : res[k].threw
        THEN NoAxes
        ELSE [threw |-> FALSE, axes |-> Reverse([k \in DOMAIN res |-> res[k].axis])]

\* the class count read at emulated axis 0, o.shape()[0]
NumClassesRead_EmulatedAxis0(o) ==
    IF HasAxis(o, ShapeProxyAxis(o, 0))
    THEN {[threw |-> FALSE, value |-> ShapeProxyIndex(o, 0)]}
    ELSE OutOfRangeRead

\* auto numClasses = o.Shape()[0]: the extent of CNTK axis 0 (Expr's base
\* class member Variable::Shape(), not the ShapeProxy of shape()); for
\* rank 0 the read is out of range
NumClassesRead(o) ==
    IF HasAxis(o, 0)
    THEN {[threw |-> FALSE, value |-> NDShapeAt(o, 0)]}
    ELSE OutOfRangeRead

NoCrossEntropy == [threw |-> TRUE, numClasses |-> 0, oneHotAxis |-> 0, ceAxis |-> 0]

\* cross_entropy(o, y), given the outcome of the read of the class count:
\* OneHotOp and CrossEntropyWithSoftmax are both given CNTK::Axis(0)
cross_entropy(o, read) ==
    IF read.threw
    THEN NoCrossEntropy
    ELSE [threw |-> FALSE, numClasses |-> read.value, oneHotAxis |-> 0, ceAxis |-> 0]

-----------------------------------------------------------------------------
(* The mappers and cross_entropy applied to one expression *)

\* the Marian shapes: rank 0..MaxRank, extents 1 or 2
MarianShapes == UNION { [1..r -> 1..2] : r \in 0..MaxRank }

\* axis indices handed to ToCNTKAxis and operator[]: every index valid for
\* some rank, and two invalid ones on each side
AxisIndices == (-(MaxRank + 2))..(MaxRank + 1)

\* axis index sequences handed to ToCNTKAxes for an expression of rank r:
\* the valid indices and the nearest invalid one on each side
AxisSequences(r) == UNION { [1..n -> (-(r + 1))..r] : n \in 0..MaxAxes }

NoMCall == [op |-> "none", index |-> 0, axes |-> <<>>, threw |-> FALSE,
            value |-> 0, seq |-> <<>>]

\* InternalOps::Constant(npShape, ...), ExpressionGraph::param: the
\* expression's view shape is ToNDShape of the Marian shape
MakeExpr ==
    /\ mpc = "shape"
    /\ x' = ToNDShape(npShape)
    /\ mpc' = "expr"
    /\ UNCHANGED <<npShape, mcall>>

CallToCNTKAxis(axisIndex) ==
    /\ mpc = "expr"
    /\ LET r == ToCNTKAxis(x, axisIndex)
       IN  mcall' = [NoMCall EXCEPT !.op = "ToCNTKAxis", !.index = axisIndex,
                                    !.threw = r.threw, !.value = r.axis]
    /\ mpc' = "done"
    /\ UNCHANGED <<npShape, x>>

CallToCNTKAxes(axisIndices) ==
    /\ mpc = "expr"
    /\ LET r == ToCNTKAxes(x, axisIndices)
       IN  mcall' = [NoMCall EXCEPT !.op = "ToCNTKAxes", !.axes = axisIndices,
                                    !.threw = r.threw, !.seq = r.axes]
    /\ mpc' = "done"
    /\ UNCHANGED <<npShape, x>>

\* x.shape()[index]
CallShapeIndex(index) ==
    /\ mpc = "expr"
    /\ \E r \in IF HasAxis(x, ShapeProxyAxis(x, index))
                 THEN {[threw |-> FALSE, value |-> ShapeProxyIndex(x, index)]}
                 ELSE OutOfRangeRead :
          mcall' = [NoMCall EXCEPT !.op = "index", !.index = index,
                                   !.threw = r.threw, !.value = r.value]
    /\ mpc' = "done"
    /\ UNCHANGED <<npShape, x>>

\* Shape s = x.shape()
CallToShape ==
    /\ mpc = "expr"
    /\ mcall' = [NoMCall EXCEPT !.op = "toShape", !.seq = ShapeProxyToShape(x)]
    /\ mpc' = "done"
    /\ UNCHANGED <<npShape, x>>

\* cross_entropy(x, y)
CallCrossEntropy ==
    /\ mpc = "expr"
    /\ \E read \in NumClassesRead(x) :
          LET r == cross_entropy(x, read)
          IN  mcall' = [NoMCall EXCEPT
                          !.op = "cross_entropy", !.threw = r.threw,
                          !.value = r.numClasses,
                          !.seq = IF r.threw THEN <<>> ELSE <<r.oneHotAxis, r.ceAxis>>]
    /\ mpc' = "done"
    /\ UNCHANGED <<npShape, x>>

IdleMappers ==
    /\ npShape = <<>>
    /\ x = <<>>
    /\ mpc = "idle"
    /\ mcall = NoMCall

-----------------------------------------------------------------------------
(* Options.  A narrow string is a sequence of char codes 0..255, a wide     *)
(* string a sequence of wchar_t codes.                                      *)

\* one char converted to wchar_t by std::wstring(s.begin(), s.end()): char
\* is signed and wchar_t is 16 bits wide in the build the header is written
\* for (__declspec), so the codes 128..255 are sign-extended
WidenChar(c) == IF c < 128 THEN c ELSE c + 65280

\* Options::widen
widen(str) == [i \in DOMAIN str |-> WidenChar(str[i])]

OptionObjects == {"A", "B"}

\* the keys "lr" and "s"
OptionKeys == {<<108, 114>>, <<115>>}

\* CNTK::DictionaryValue: a kind tag and a payload
DictValues == [kind : {"Int", "Float"}, val : 1..MaxVal, str : {<<>>}]

NoValue == [kind |-> "None", val |-> 0, str |-> <<>>]

\* the narrow strings a caller stores: "a"
OptionStrings == {<<97>>}

\* a std::string value of the caller
StringValue(str) == [kind |-> "String", val |-> 0, str |-> str]

\* the types T of get<T>: int, float, std::string
ValueTypes == {"Int", "Float", "String"}

\* the argument deflt of get<T>(key, deflt): 0, 0.0f, "d"
Default(T) == IF T = "String" THEN StringValue(<<100>>)
              ELSE [kind |-> T, val |-> 0, str |-> <<>>]

NoOCall == [op |-> "none", this |-> "A", other |-> "A", key |-> <<>>,
            value |-> NoValue, copied |-> {}, T |-> "", found |-> FALSE,
            threw |-> FALSE, result |-> NoValue]

\* CNTK::Dictionary::Contains
Contains(dict, key) == key \in DOMAIN dict

\* Base::operator[](key) = value
Assign(dict, key, value) ==
    [k \in DOMAIN dict \cup {key} |-> IF k = key THEN value ELSE dict[k]]

\* the loop of merge without the test !Contains(key)
RECURSIVE MergeLoop_NoContainsTest(_, _, _)
MergeLoop_NoContainsTest(dict, other, keys) ==
    IF keys = {}
    THEN dict
    ELSE LET key == CHOOSE k \in keys : TRUE
         IN  MergeLoop_NoContainsTest(Assign(dict, key, other[key]), other, keys \ {key})

\* the loop of Options::merge over other->Keys()
RECURSIVE MergeLoop(_, _, _)
MergeLoop(dict, other, keys) ==
    IF keys = {}
    THEN dict
    ELSE LET key == CHOOSE k \in keys : TRUE
         IN  MergeLoop(IF ~Contains(dict, key)
                       THEN Assign(dict, key, other[key])
                       ELSE dict,
                       other, keys \ {key})

\* this->merge(other); other may be the same object as this
merge(this, other) ==
    /\ opts' = [opts EXCEPT ![this] = MergeLoop(@, opts[other], DOMAIN opts[other])]
    /\ ocall' = [NoOCall EXCEPT !.op = "merge", !.this = this, !.other = other,
                    !.copied = DOMAIN opts[other] \ DOMAIN opts[this]]

\* template<typename T> Options::set
set(this, key, value) ==
    /\ opts' = [opts EXCEPT ![this] = Assign(@, widen(key), value)]
    /\ ocall' = [NoOCall EXCEPT !.op = "set", !.this = this, !.key = key,
                    !.value = value]

\* a narrow that keeps only 7 bits of each wchar_t
NarrowChar_Keeps7Bits(w) == w % 128

\* Options::narrow keeps the low 8 bits of each wchar_t
NarrowChar(w) == w % 256

\* Options::narrow
narrow(wstr) == [i \in DOMAIN wstr |-> NarrowChar(wstr[i])]

\* template<> Options::set<std::string>
set_string(this, key, value) ==
    /\ opts' = [opts EXCEPT ![this] = Assign(@, widen(key), StringValue(widen(value)))]
    /\ ocall' = [NoOCall EXCEPT !.op = "set", !.this = this, !.key = key,
                    !.value = StringValue(value)]

\* Options::has
has(this, key) ==
    /\ ocall' = [NoOCall EXCEPT !.op = "has", !.this = this, !.key = key,
                    !.found = Contains(opts[this], widen(key))]
    /\ UNCHANGED opts

\* the outcome of a read: an exception, or a value
Threw == [threw |-> TRUE, value |-> NoValue]
Returned(value) == [threw |-> FALSE, value |-> value]

\* CNTK::Dictionary::operator[](key) const
Lookup(dict, key) == IF Contains(dict, key) THEN Returned(dict[key]) ELSE Threw

\* CNTK::DictionaryValue::Value<T>()
Value(entry, T) ==
    IF entry.threw \/ entry.value.kind # T THEN Threw ELSE Returned(entry.value)

\* CNTK::Dictionary::GetOrElse(key, deflt)
GetOrElse(dict, key, T, deflt) ==
    IF Contains(dict, key) THEN Value(Lookup(dict, key), T) ELSE Returned(deflt)

\* template<typename T> Options::get(key)
get_T(dict, key, T) == Value(Lookup(dict, widen(key)), T)

\* template<typename T> Options::get(key, deflt)
get_T_deflt(dict, key, T, deflt) == GetOrElse(dict, widen(key), T, deflt)

\* template<> Options::get<std::string>(key)
get_string(dict, key) ==
    LET wstr == Value(Lookup(dict, widen(key)), "String")
    IN  IF wstr.threw THEN Threw ELSE Returned(StringValue(narrow(wstr.value.str)))

\* get<std::string>(key, deflt) that yields deflt whenever the read fails
get_string_deflt_OnAnyFailure(dict, key, deflt) ==
    IF get_string(dict, key).threw THEN Returned(deflt) ELSE get_string(dict, key)

\* template<> Options::get<std::string>(key, deflt)
get_string_deflt(dict, key, deflt) ==
    IF Contains(dict, widen(key)) THEN get_string(dict, key) ELSE Returned(deflt)

\* this->get<T>(key): the specialization for std::string, or the template
Options_get(this, key, T) ==
    LET r == IF T = "String" THEN get_string(opts[this], key)
             ELSE get_T(opts[this], key, T)
    IN  /\ ocall' = [NoOCall EXCEPT !.op = "get", !.this = this, !.key = key,
                        !.T = T, !.threw = r.threw, !.result = r.value]
        /\ UNCHANGED opts

\* this->get<T>(key, deflt)
Options_get_deflt(this, key, T, deflt) ==
    LET r == IF T = "String" THEN get_string_deflt(opts[this], key, deflt)
             ELSE get_T_deflt(opts[this], key, T, deflt)
    IN  /\ ocall' = [NoOCall EXCEPT !.op = "get_deflt", !.this = this, !.key = key,
                        !.T = T, !.value = deflt, !.threw = r.threw,
                        !.result = r.value]
        /\ UNCHANGED opts

InitOptions ==
    /\ opts = [o \in OptionObjects |-> <<>>]
    /\ ocall = NoOCall

-----------------------------------------------------------------------------
(* Operators.  An Expr is the handle of an engine node; the expressions    *)
(* that exist before a call have the handles 1..NumInputs, and the nodes a *)
(* call creates get the handles that follow.                               *)

NumInputs == 2
MaxScalar == 2

NoArgs  == [fn |-> "none"]
NoECall == [op |-> "none"]

IdleOperators ==
    /\ args = NoArgs
    /\ ecall = NoECall
    /\ seed = 1

\* the scalar operands: a float, an int or a double
Scalars == [type : {"float", "int", "double"}, val : -1..MaxScalar]

\* what an operator gives back: the handle it returns and the nodes it created
NoNode == [result |-> 0, created |-> <<>>]

\* InternalOps::Scalar: CNTK::Constant::Scalar(DataType::Float, (float)x)
Scalar(s) == [kind |-> "Constant", value |-> s.val, inputs |-> <<>>]

\* CNTK::Plus, Minus, ElementTimes, ElementDivide, Negate
Function(kind, inputs) == [kind |-> kind, value |-> 0, inputs |-> inputs]

\* Scalar(a) op b
ScalarThenExpr(kind, a, b) ==
    [result |-> NumInputs + 2,
     created |-> <<Scalar(a), Function(kind, <<NumInputs + 1, b>>)>>]

\* a op Scalar(b)
ExprThenScalar(kind, a, b) ==
    [result |-> NumInputs + 2,
     created |-> <<Scalar(b), Function(kind, <<a, NumInputs + 1>>)>>]

\* operator+(Number a, const Expr& b)
plus_ScalarExpr(a, b) ==
    IF a.val = 0 THEN [result |-> b, created |-> <<>>] ELSE ScalarThenExpr("Plus", a, b)

\* operator+(const Expr& a, Number b)
plus_ExprScalar(a, b) ==
    IF b.val = 0 THEN [result |-> a, created |-> <<>>] ELSE ExprThenScalar("Plus", a, b)

\* operator-(Number a, const Expr& b)
minus_ScalarExpr(a, b) ==
    IF a.val = 0
    THEN [result |-> NumInputs + 1, created |-> <<Function("Negate", <<b>>)>>]
    ELSE ScalarThenExpr("Minus", a, b)

\* operator-(const Expr& a, Number b)
minus_ExprScalar(a, b) ==
    IF b.val = 0 THEN [result |-> a, created |-> <<>>] ELSE ExprThenScalar("Minus", a, b)

\* operator*(Number a, const Expr& b)
times_ScalarExpr(a, b) ==
    IF a.val = 1 THEN [result |-> b, created |-> <<>>]
    ELSE ScalarThenExpr("ElementTimes", a, b)

\* operator*(const Expr& a, Number b)
times_ExprScalar(a, b) ==
    IF b.val = 1 THEN [result |-> a, created |-> <<>>]
    ELSE ExprThenScalar("ElementTimes", a, b)

\* operator/(Number a, const Expr& b)
divide_ScalarExpr(a, b) == ScalarThenExpr("ElementDivide", a, b)

\* operator/ that makes a node whatever the divisor
divide_ExprScalar_NoShortcut(a, b) == ExprThenScalar("ElementDivide", a, b)

\* operator/(const Expr& a, Number b)
divide_ExprScalar(a, b) ==
    IF b.val = 1 THEN [result |-> a, created |-> <<>>]
    ELSE ExprThenScalar("ElementDivide", a, b)

\* the calls  scalar op expr  and  expr op scalar
ScalarOpArgs ==
    [fn : {"scalar_op"}, op : {"+", "-", "*", "/"}, scalarFirst : BOOLEAN,
     scalar : Scalars, expr : 1..NumInputs]

ScalarOp(op, scalarFirst, scalar, expr) ==
    CASE op = "+" -> IF scalarFirst THEN plus_ScalarExpr(scalar, expr)
                     ELSE plus_ExprScalar(expr, scalar)
      [] op = "-" -> IF scalarFirst THEN minus_ScalarExpr(scalar, expr)
                     ELSE minus_ExprScalar(expr, scalar)
      [] op = "*" -> IF scalarFirst THEN times_ScalarExpr(scalar, expr)
                     ELSE times_ExprScalar(expr, scalar)
      [] op = "/" -> IF scalarFirst THEN divide_ScalarExpr(scalar, expr)
                     ELSE divide_ExprScalar(expr, scalar)

CallScalarOp ==
    /\ args.fn = "scalar_op"
    /\ ecall.op = "none"
    /\ LET r == ScalarOp(args.op, args.scalarFirst, args.scalar, args.expr)
       IN  ecall' = [op |-> "scalar_op", result |-> r.result, created |-> r.created]
    /\ UNCHANGED <<args, seed, graphVars, mapperVars, optionVars>>

-----------------------------------------------------------------------------
(* dropout.  A probability is DropProb / ProbDen; rand() returns a value in *)
(* 0..RandMax, RandMax standing for RAND_MAX; a float is a fraction.        *)

ProbDen == 4
RandMax == 3

\* the NDShapes of the expression given to dropout
DropoutShapes == {<<>>, <<0>>, <<2>>, <<1, 3>>}

DropoutArgs == [fn : {"dropout"}, shape : DropoutShapes, dropProb : 0..ProbDen]

\* float keepProb = 1 - dropProb
KeepProb(dropProb) == [num |-> ProbDen - dropProb, den |-> ProbDen]

\* float invKeepProb = 1 / keepProb  (a zero denominator is the float inf)
InvKeepProb(dropProb) == [num |-> ProbDen, den |-> ProbDen - dropProb]

ZeroFloat == [num |-> 0, den |-> 1]

\* rand() < RAND_MAXxP, where RAND_MAXxP = keepProb * RAND_MAX
Kept(dropProb, r) ==
    r * KeepProb(dropProb).den < KeepProb(dropProb).num * RandMax

\* InternalOps::DropoutMask(n, dropProb); rands[i] is what the i-th rand() returned
DropoutMask(n, dropProb, rands) ==
    [i \in 1..n |-> IF Kept(dropProb, rands[i]) THEN InvKeepProb(dropProb) ELSE ZeroFloat]

\* InternalOps::DropoutMask(prob, shape): a Constant of x's shape over the mask
DropoutMaskExpr(dropProb, shape, rands) ==
    [shape |-> shape, data |-> DropoutMask(TotalSize(shape), dropProb, rands)]

\* dropout(x, dropProb): the mask that x is multiplied with
dropout(shape, dropProb, rands) ==
    /\ ecall' = [op |-> "dropout", rands |-> rands,
                 mask |-> DropoutMaskExpr(dropProb, shape, rands)]
    /\ seed' = seed + 1              \* srand(seed++)
    /\ UNCHANGED args

CallDropout ==
    /\ args.fn = "dropout"
    /\ ecall.op = "none"
    /\ \E rands \in [1..TotalSize(args.shape) -> 0..RandMax] :
          dropout(args.shape, args.dropProb, rands)
    /\ UNCHANGED <<graphVars, mapperVars, optionVars>>

-----------------------------------------------------------------------------
(* Cost.  A tensor is a view shape and one float per index; a float is a   *)
(* fraction num / den, under an exponential when exp is set.  An index is  *)
(* a sequence of positions, one per engine axis, each counted from 1.      *)

MaxDim == 2
MaxCE  == 2

Frac(num, den) == [num |-> num, den |-> den, exp |-> FALSE]

Indices(viewShape) ==
    { idx \in [1..Len(viewShape) -> 1..MaxDim] :
        \A k \in 1..Len(viewShape) : idx[k] <= viewShape[k] }

Tensor(viewShape, data) == [failed |-> FALSE, null |-> FALSE, shape |-> viewShape,
                            data |-> data]

\* Expr(nullptr)
NullTensor == [failed |-> FALSE, null |-> TRUE, shape |-> <<>>, data |-> <<>>]

\* the call did not return: an exception, or a read through a null Variable
Failed == [failed |-> TRUE, null |-> FALSE, shape |-> <<>>, data |-> <<>>]

Usable(a) == ~a.failed /\ ~a.null

\* float addition
AddFrac(p, q) ==
    IF p.den = q.den THEN Frac(p.num + q.num, p.den)
    ELSE Frac(p.num * q.den + q.num * p.den, p.den * q.den)

RECURSIVE SumFracs(_, _)
SumFracs(data, idxs) ==
    IF idxs = {} THEN Frac(0, 1)
    ELSE LET i == CHOOSE j \in idxs : TRUE
         IN  AddFrac(SumFracs(data, idxs \ {i}), data[i])

\* CNTK::ReduceSum(a, axis): the extent of axis becomes 1
ReduceSum(a, axis) ==
    LET k == axis + 1
        shape == [a.shape EXCEPT ![k] = 1]
    IN  Tensor(shape,
               [idx \in Indices(shape) |->
                   SumFracs(a.data, { [idx EXCEPT ![k] = i] : i \in 1..a.shape[k] })])

\* CNTK::ReduceMean(a, axis): the sum along axis over the extent of axis
ReduceMean(a, axis) ==
    LET k == axis + 1
        total == ReduceSum(a, axis)
    IN  Tensor(total.shape,
               [idx \in Indices(total.shape) |->
                   Frac(total.data[idx].num, total.data[idx].den * a.shape[k])])

\* sum(a, ax) reducing along the engine axis of the same number as the Marian axis
sum_NoFlip(a, ax) ==
    IF ~Usable(a) THEN Failed ELSE ReduceSum(a, ax + Len(a.shape))

\* sum(a, ax)
sum(a, ax) ==
    IF ~Usable(a) \/ ToCNTKAxis(a.shape, ax).threw THEN Failed
    ELSE ReduceSum(a, ToCNTKAxis(a.shape, ax).axis)

\* mean(a, ax)
mean(a, ax) ==
    IF ~Usable(a) \/ ToCNTKAxis(a.shape, ax).threw THEN Failed
    ELSE ReduceMean(a, ToCNTKAxis(a.shape, ax).axis)

\* operator*(const Expr&, const Expr&) on tensors of one shape
ElementTimes(a, b) ==
    IF ~Usable(a) \/ ~Usable(b) THEN Failed
    ELSE Tensor(a.shape, [idx \in Indices(a.shape) |->
                    Frac(a.data[idx].num * b.data[idx].num,
                         a.data[idx].den * b.data[idx].den)])

\* operator/(const Expr&, const Expr&) on tensors of one shape
ElementDivide(a, b) ==
    IF ~Usable(a) \/ ~Usable(b) THEN Failed
    ELSE Tensor(a.shape, [idx \in Indices(a.shape) |->
                    Frac(a.data[idx].num * b.data[idx].den,
                         a.data[idx].den * b.data[idx].num)])

\* operator-(const Expr&, const Expr&) on tensors of one shape
Minus(a, b) ==
    IF ~Usable(a) \/ ~Usable(b) THEN Failed
    ELSE Tensor(a.shape, [idx \in Indices(a.shape) |->
                    AddFrac(a.data[idx], Frac(-b.data[idx].num, b.data[idx].den))])

\* operator*(float, const Expr&) with the float num / den
ScalarTimes(num, den, a) ==
    IF ~Usable(a) THEN Failed
    ELSE Tensor(a.shape, [idx \in Indices(a.shape) |->
                    Frac(num * a.data[idx].num, den * a.data[idx].den)])

\* operator-(const Expr&)
Negate(a) ==
    IF ~Usable(a) THEN Failed
    ELSE Tensor(a.shape, [idx \in Indices(a.shape) |->
                    Frac(-a.data[idx].num, a.data[idx].den)])

\* exp(a)
exp(a) ==
    IF ~Usable(a) THEN Failed
    ELSE Tensor(a.shape, [idx \in Indices(a.shape) |-> [a.data[idx] EXCEPT !.exp = TRUE]])

\* the view shapes of cross_entropy(logits, indices): the Marian shapes
\* [T, B, 1] and [1, T, B, 1] reversed, the class axis reduced to 1
CostShapes == {<<1, 1, 2>>, <<1, 2, 1>>, <<1, 2, 2>>, <<1, 2, 1, 1>>}

CostTypes == {"ce-mean", "cross-entropy", "ce-mean-words", "ce-sum", "perplexity",
              "ce-rescore", "ce-other"}

FloatTensor(viewShape, values) ==
    Tensor(viewShape, [idx \in Indices(viewShape) |-> Frac(values[idx], 1)])

\* smoothing is 0 or 1/2, counted in halves; ce and ceq stand for
\* cross_entropy(logits, indices) and mean(logsoftmax(logits), axis = -1),
\* which the engine computes; mask is a 0/1 tensor or the empty expression
CostArgs ==
    UNION { [fn : {"Cost"},
             ce : { FloatTensor(shape, v) : v \in [Indices(shape) -> 1..MaxCE] },
             ceq : { FloatTensor(shape, [idx \in Indices(shape) |-> -1]) },
             mask : { FloatTensor(shape, v) : v \in [Indices(shape) -> 0..1] }
                    \cup {NullTensor},
             costType : CostTypes,
             smoothing : {0, 1}] : shape \in CostShapes }

\* Cost, after cross_entropy; smoothing counts halves
Cost(ce0, ceq, mask, costType, smoothing) ==
    LET smoothed == IF smoothing > 0
                    THEN Minus(ScalarTimes(2 - smoothing, 2, ce0),
                               ScalarTimes(smoothing, 2, ceq))
                    ELSE ce0
        ce == IF ~mask.null THEN ElementTimes(smoothed, mask) ELSE smoothed
    IN  CASE costType \in {"ce-mean", "cross-entropy"} -> mean(sum(ce, -3), -2)
          [] costType = "ce-mean-words" ->
                ElementDivide(sum(sum(ce, -3), -2), sum(sum(mask, -3), -2))
          [] costType = "ce-sum" -> sum(sum(ce, -3), -2)
          [] costType = "perplexity" ->
                exp(ElementDivide(sum(sum(ce, -3), -2), sum(sum(mask, -3), -2)))
          [] costType = "ce-rescore" -> Negate(sum(ce, -3))
          [] OTHER -> mean(sum(ce, -3), -2)

CallCost ==
    /\ args.fn = "Cost"
    /\ ecall.op = "none"
    /\ ecall' = [op |-> "Cost",
                 cost |-> Cost(args.ce, args.ceq, args.mask, args.costType,
                               args.smoothing)]
    /\ UNCHANGED <<args, seed, graphVars, mapperVars, optionVars>>

-----------------------------------------------------------------------------
(* guidedAlignmentCost.  The cost is weight / divisor times the loss that  *)
(* the engine computes from the attention and the alignment.               *)

MaxBatch == 2

\* "guided-alignment-cost"
GuidedAlignmentCostKey ==
    <<103, 117, 105, 100, 101, 100, 45, 97, 108, 105, 103, 110, 109, 101,
     110, 116, 45, 99, 111, 115, 116>>

\* "guided-alignment-weight"
GuidedAlignmentWeightKey ==
    <<103, 117, 105, 100, 101, 100, 45, 97, 108, 105, 103, 110, 109, 101,
     110, 116, 45, 119, 101, 105, 103, 104, 116>>

\* "mse", "mult", "ce", and the unknown "l1"
GuidedCostTypes == {<<109, 115, 101>>, <<109, 117, 108, 116>>, <<99, 101>>, <<108, 49>>}

\* the view shapes of att: the Marian shapes [dimBatch, 1, dimSrc, dimTrg]
AttShapes == { ToNDShape(<<dimBatch, 1, dimSrc, 2>>) :
                 dimBatch \in 1..MaxBatch, dimSrc \in 1..2 }

\* what "guided-alignment-cost" and "guided-alignment-weight" may hold
GuidedCostValues ==
    { StringValue(widen(t)) : t \in GuidedCostTypes }
    \cup {[kind |-> "Int", val |-> 1, str |-> <<>>], NoValue}
GuidedWeightValues ==
    { [kind |-> "Float", val |-> w, str |-> <<>>] : w \in 1..2 }
    \cup {[kind |-> "Int", val |-> 1, str |-> <<>>], NoValue}

\* an Options object holding the given entries (NoValue: the key is not set)
GuidedOptions(cost, weight) ==
    LET withCost == IF cost = NoValue THEN <<>>
                    ELSE Assign(<<>>, widen(GuidedAlignmentCostKey), cost)
    IN  IF weight = NoValue THEN withCost
        ELSE Assign(withCost, widen(GuidedAlignmentWeightKey), weight)

\* alnExtra: how many floats batch->getGuidedAlignment() has beyond
\* dimBatch * dimSrc * dimTrg
GuidedArgs ==
    [fn : {"guidedAlignmentCost"}, att : AttShapes, alnExtra : {0, 1},
     options : { GuidedOptions(c, w) : c \in GuidedCostValues, w \in GuidedWeightValues }]

NoCost == [failed |-> TRUE, loss |-> <<>>, weight |-> 0, divisor |-> 1]

\* ABORT_IF that returns to its caller
ABORT_IF_Returns(cond) == FALSE

\* ABORT_IF(cond, msg): whether CNTK::InvalidArgument is raised
ABORT_IF(cond) == cond

\* guidedAlignmentCost dividing the "mse" loss by dimBatch
guidedAlignmentCost_MseByBatch(att, alnExtra, options) ==
    LET dimBatch == ShapeProxyIndex(att, 0)
        dimSrc   == ShapeProxyIndex(att, 2)
        dimTrg   == ShapeProxyIndex(att, 3)
        alnShape == ToNDShape(<<dimBatch, 1, dimSrc, dimTrg>>)
        guidedCostType == get_string(options, GuidedAlignmentCostKey)
        guidedScalar   == get_T(options, GuidedAlignmentWeightKey, "Float")
        known == {<<109, 115, 101>>, <<109, 117, 108, 116>>, <<99, 101>>}
    IN  IF dimBatch * dimSrc * dimTrg + alnExtra # TotalSize(alnShape) THEN NoCost
        ELSE IF guidedCostType.threw THEN NoCost
        ELSE IF guidedCostType.value.str \notin known /\ ABORT_IF(TRUE) THEN NoCost
        ELSE IF guidedScalar.threw THEN NoCost
        ELSE [failed |-> FALSE,
              loss |-> IF guidedCostType.value.str \in known
                       THEN guidedCostType.value.str ELSE <<>>,
              weight |-> guidedScalar.value.val,
              divisor |-> dimBatch]

\* guidedAlignmentCost: the loss named by "guided-alignment-cost", times
\* weight, over divisor; loss <<>> is the empty alnCost
guidedAlignmentCost(att, alnExtra, options) ==
    LET dimBatch == ShapeProxyIndex(att, 0)
        dimSrc   == ShapeProxyIndex(att, 2)
        dimTrg   == ShapeProxyIndex(att, 3)
        alnShape == ToNDShape(<<dimBatch, 1, dimSrc, dimTrg>>)
        guidedCostType == get_string(options, GuidedAlignmentCostKey)
        guidedScalar   == get_T(options, GuidedAlignmentWeightKey, "Float")
        known == {<<109, 115, 101>>, <<109, 117, 108, 116>>, <<99, 101>>}
    IN  IF dimBatch * dimSrc * dimTrg + alnExtra # TotalSize(alnShape) THEN NoCost
        ELSE IF guidedCostType.threw THEN NoCost
        ELSE IF guidedCostType.value.str \notin known /\ ABORT_IF(TRUE) THEN NoCost
        ELSE IF guidedScalar.threw THEN NoCost
        ELSE [failed |-> FALSE,
              loss |-> IF guidedCostType.value.str \in known
                       THEN guidedCostType.value.str ELSE <<>>,
              weight |-> guidedScalar.value.val,
              divisor |-> IF guidedCostType.value.str = <<109, 115, 101>>
                          THEN 2 * dimBatch ELSE dimBatch]

CallGuidedAlignmentCost ==
    /\ args.fn = "guidedAlignmentCost"
    /\ ecall.op = "none"
    /\ ecall' = [op |-> "guidedAlignmentCost",
                 cost |-> guidedAlignmentCost(args.att, args.alnExtra, args.options)]
    /\ UNCHANGED <<args, seed, graphVars, mapperVars, optionVars>>

-----------------------------------------------------------------------------
(* Functions whose body is InternalOps::NotImplemented or CNTK::LogicError, *)
(* and a few that map onto the engine                                       *)

MaxList == 2

\* how a call ends: it returns, raises an exception with a message, or the
\* process dies on a read through an invalid iterator
Returns == [ended |-> "returned", message |-> ""]
Crashes == [ended |-> "crashed", message |-> ""]

\* CNTK::LogicError(msg)
LogicError(msg) == [ended |-> "raised", message |-> msg]

\* NotImplemented that goes on to "return CNTK::Variable()"
NotImplemented_ReturnsEmpty(str) == Returns

\* InternalOps::NotImplemented
NotImplemented(str) == LogicError(str)

\* how plus(xs) ends for a list of n expressions.  For n = 0, mid == b and
\* "return *b" reads the end iterator: the read kills the process, or yields
\* some Expr.
PlusEnds(n) == IF n = 0 THEN {Crashes, Returns} ELSE {Returns}

\* f(plus(xs)): plus runs first
AfterPlus(n, outcome) ==
    { IF p = Returns THEN outcome ELSE p : p \in PlusEnds(n) }

\* the functions, and whether the overload taking a std::vector<Expr> is called
FunctionArgs ==
    [fn : {"function"},
     name : {"leakyrelu", "prelu", "relu", "logit"}, list : {TRUE}, n : 0..MaxList]
    \cup
    [fn : {"function"},
     name : {"leakyrelu", "prelu", "dot", "bdot", "select", "softmax_mask",
             "layer_norm", "highway", "highway_prefix", "shift",
             "convert2cudnnFormat", "convertFromcudnnFormat", "avg_pooling",
             "max_pooling", "pooling_with_masking", "from_word2vec",
             "CorpusBatch::split", "Options::str", "relu", "logit", "softmax"},
     list : {FALSE}, n : {1}]

\* the body of each function
Body(name) ==
    CASE name = "leakyrelu" -> NotImplemented("leakyrelu")
      [] name = "prelu" -> NotImplemented("prelu")
      [] name = "dot" -> NotImplemented("dot")
      [] name = "bdot" -> NotImplemented("bdot")
      [] name = "select" -> NotImplemented("select")
      [] name = "softmax_mask" -> NotImplemented("softmax")
      [] name = "layer_norm" -> NotImplemented("layer_norm")
      [] name = "highway" -> NotImplemented("highway")
      [] name = "highway_prefix" -> NotImplemented("highway")
      [] name = "shift" -> NotImplemented("shift")
      [] name = "convert2cudnnFormat" -> NotImplemented("convert2cudnnFormat")
      [] name = "convertFromcudnnFormat" -> NotImplemented("convertFromcudnnFormat")
      [] name = "avg_pooling" -> NotImplemented("avg_pooling")
      [] name = "max_pooling" -> NotImplemented("max_pooling")
      [] name = "pooling_with_masking" -> NotImplemented("pooling_with_masking")
      [] name = "from_word2vec" -> LogicError("from_word2vec: not implemented")
      [] name = "CorpusBatch::split" -> LogicError("CorpusBatch::split not implemented")
      [] name = "Options::str" -> LogicError("Option serialization not supported")
      [] name = "relu" -> Returns         \* CNTK::ReLU(a)
      [] name = "logit" -> Returns        \* CNTK::Sigmoid(a)
      [] name = "softmax" -> Returns      \* Dynamite::Softmax(a, Axis(0))

\* name(xs) is name(plus(xs)) for the overloads taking a list
Outcomes(name, list, n) ==
    IF list THEN AfterPlus(n, Body(name)) ELSE {Body(name)}

CallFunction ==
    /\ args.fn = "function"
    /\ ecall.op = "none"
    /\ \E outcome \in Outcomes(args.name, args.list, args.n) :
          ecall' = [op |-> "function", outcome |-> outcome]
    /\ UNCHANGED <<args, seed, graphVars, mapperVars, optionVars>>

-----------------------------------------------------------------------------
(* plus over a list.  Here an Expr is the tree of the nodes it stands for: *)
(* a leaf for an expression that existed before the call, a Plus node with *)
(* its inputs for one the call creates.  Iterators are offsets from        *)
(* xs.begin(), so xs.end() is Len(xs).                                     *)

MaxPlus == 4

\* the expression with handle h that exists before the call
Input(h) == [kind |-> "Input", value |-> h, inputs |-> <<>>]

\* what a read through xs.end() yields, if it yields anything
EndElement == [kind |-> "EndElement", value |-> 0, inputs |-> <<>>]

\* *it
Deref(xs, it) == IF it < Len(xs) THEN xs[it + 1] ELSE EndElement

\* the lists plus is called with
PlusArgs ==
    [fn : {"plus"},
     xs : UNION { [1..n -> { Input(h) : h \in 1..NumInputs }] : n \in 0..MaxPlus }]

RECURSIVE InternalOps_plus_SkipsMid(_, _, _)
\* plus whose right half starts one element after mid
InternalOps_plus_SkipsMid(xs, b, e) ==
    LET n   == e - b
        mid == b + n \div 2
    IN  IF mid = b
        THEN Deref(xs, b)
        ELSE Function("Plus", <<InternalOps_plus_SkipsMid(xs, b, mid),
                                InternalOps_plus_SkipsMid(xs, mid + 1, e)>>)

RECURSIVE InternalOps_plus(_, _, _)
\* InternalOps::plus(b, e)
InternalOps_plus(xs, b, e) ==
    LET n   == e - b
        mid == b + n \div 2
    IN  IF mid = b
        THEN Deref(xs, b)
        ELSE Function("Plus", <<InternalOps_plus(xs, b, mid),
                                InternalOps_plus(xs, mid, e)>>)

\* plus(xs)
plus(xs) == InternalOps_plus(xs, 0, Len(xs))

RECURSIVE ReadsEnd(_)
\* the expression was built from a read through xs.end()
ReadsEnd(a) ==
    \/ a = EndElement
    \/ \E i \in DOMAIN a.inputs : ReadsEnd(a.inputs[i])

\* a read through xs.end() kills the process or yields some element
CallPlus ==
    /\ args.fn = "plus"
    /\ ecall.op = "none"
    /\ LET r == plus(args.xs)
       IN  \E ended \in IF ReadsEnd(r) THEN {"crashed", "returned"} ELSE {"returned"} :
              ecall' = [op |-> "plus", ended |-> ended, endRead |-> ReadsEnd(r),
                        result |-> IF ended = "returned" THEN r ELSE EndElement]
    /\ UNCHANGED <<args, seed, graphVars, mapperVars, optionVars>>

-----------------------------------------------------------------------------
(* affine.  A matrix is a sequence of rows, a vector a matrix of one column *)

MaxEntry == 1

Rows(m) == Len(m)
Cols(m) == Len(m[1])

Matrices(rows, cols) == [1..rows -> [1..cols -> 0..MaxEntry]]

\* the example W = [[1,2],[3,4]], x = [5,6], b = [1,1]
ExampleAffine ==
    [fn |-> "affine", W |-> <<<<1, 2>>, <<3, 4>>>>, xs |-> <<<<5>>, <<6>>>>,
     b |-> <<<<1>>, <<1>>>>]

\* W is 2 x 2, x a vector of 2 or a 2 x 2 matrix, b a vector of 2
AffineArgs ==
    [fn : {"affine"}, W : Matrices(2, 2), xs : Matrices(2, 1) \cup Matrices(2, 2),
     b : [1..2 -> [1..1 -> 0..1]]]
    \cup {ExampleAffine}

NoMatrix == [failed |-> TRUE, value |-> <<>>]

RECURSIVE DotProduct(_, _, _, _, _)
DotProduct(left, right, i, j, k) ==
    IF k = 0 THEN 0
    ELSE left[i][k] * right[k][j] + DotProduct(left, right, i, j, k - 1)

\* CNTK::Times(left, right): the matrix product left . right
Times(left, right) ==
    IF Cols(left) # Rows(right) THEN NoMatrix
    ELSE [failed |-> FALSE,
          value |-> [i \in 1..Rows(left) |->
                       [j \in 1..Cols(right) |->
                           DotProduct(left, right, i, j, Cols(left))]]]

\* CNTK::Plus(y, b) with the vector b added to each column of y
PlusVector(y, b) ==
    IF y.failed \/ Rows(y.value) # Rows(b) THEN NoMatrix
    ELSE [failed |-> FALSE,
          value |-> [i \in 1..Rows(y.value) |->
                       [j \in 1..Cols(y.value) |-> y.value[i][j] + b[i][1]]]]

\* affine handing (x, W) to CNTK::Times
affine_TimesXW(xs, W, b) == PlusVector(Times(xs, W), b)

\* affine(x, W, b): CNTK::Times(W, x) + b
affine(xs, W, b) == PlusVector(Times(W, xs), b)

CallAffine ==
    /\ args.fn = "affine"
    /\ ecall.op = "none"
    /\ ecall' = [op |-> "affine", y |-> affine(args.xs, args.W, args.b)]
    /\ UNCHANGED <<args, seed, graphVars, mapperVars, optionVars>>

-----------------------------------------------------------------------------
(* ExpressionGraph and OptimizerWrapper *)

Graphs == {"g1", "g2"}
Names  == {"W1", "W2"}

\* Marian shapes a caller may request: rank 2
ParamShapes == { <<a, b>> : a \in 1..MaxExtent, b \in 1..2 }

\* CNTK::ParameterInitializer: a constant fill, or the wrapped vector ("from_vector")
Inits == {[kind |-> "constant", size |-> 0, value |-> 0],
          [kind |-> "from_vector", size |-> 2, value |-> 1]}

NullExpr == 0                    \* Expr(nullptr): the empty expression
NullGrad == <<>>                 \* a null NDArrayViewPtr
NoShape  == <<>>

NoInit   == [kind |-> "", size |-> 0, value |-> 0]

NoCall == [op |-> "none", graph |-> "g1", name |-> "", shape |-> NoShape,
           init |-> NoInit, path |-> "", threw |-> FALSE, result |-> NullExpr]

Unbound == [bound |-> FALSE, params |-> <<>>]

\* Register without the line m_allGradients[p] = nullptr
Register_NoGradientEntry(g, name, p) ==
    /\ m_allParametersMap' = [m_allParametersMap EXCEPT ![g] = @ @@ (name :> p)]
    /\ m_allParameters'    = [m_allParameters EXCEPT ![g] = Append(@, p)]
    /\ UNCHANGED m_allGradients

\* lines 772-774 and 780-782: the three containers take the new parameter p
Register(g, name, p) ==
    /\ m_allParametersMap' = [m_allParametersMap EXCEPT ![g] = @ @@ (name :> p)]
    /\ m_allParameters'    = [m_allParameters EXCEPT ![g] = Append(@, p)]
    /\ m_allGradients'     = [m_allGradients EXCEPT ![g] = @ @@ (p :> NullGrad)]

\* CNTK::Parameter(...): the engine allocates a fresh parameter object
NewParameter(p, viewShape, init) ==
    /\ store' = store @@ (p :> [shape |-> viewShape, value |-> init.value])
    /\ nextHandle' = nextHandle + 1

\* param without the lookup of the name: every call allocates and registers
param_NoLookup(g, name, shape, init, fixed) ==
    LET viewShape == ToNDShape(shape)
        p == nextHandle
    IN
    /\ UNCHANGED <<m_learner, learnersCreated>>
    /\ NewParameter(p, viewShape, init)
    /\ m_allParametersMap' = [m_allParametersMap EXCEPT
                                ![g] = [n \in DOMAIN @ \cup {name} |->
                                           IF n = name THEN p ELSE @[n]]]
    /\ m_allParameters' = [m_allParameters EXCEPT ![g] = Append(@, p)]
    /\ m_allGradients'  = [m_allGradients EXCEPT ![g] = @ @@ (p :> NullGrad)]
    /\ call' = [op |-> "param", graph |-> g, name |-> name, shape |-> shape,
                init |-> init, path |-> "create", threw |-> FALSE, result |-> p]

\* param whose case 2 compares the element counts instead of the shapes
param_ComparesTotalSize(g, name, shape, init, fixed) ==
    LET viewShape == ToNDShape(shape)
        rec == [op |-> "param", graph |-> g, name |-> name, shape |-> shape,
                init |-> init, path |-> "", threw |-> FALSE, result |-> NullExpr]
    IN
    /\ UNCHANGED <<m_learner, learnersCreated>>
    /\ IF name \notin DOMAIN m_allParametersMap[g]
       THEN IF init.kind = "from_vector" /\ init.size # TotalSize(viewShape)
            THEN /\ call' = [rec EXCEPT !.path = "vector_size_mismatch", !.threw = TRUE]
                 /\ UNCHANGED <<m_allParametersMap, m_allParameters,
                                m_allGradients, store, nextHandle>>
            ELSE /\ NewParameter(nextHandle, viewShape, init)
                 /\ Register(g, name, nextHandle)
                 /\ call' = [rec EXCEPT !.path = "create", !.result = nextHandle]
       ELSE LET p == m_allParametersMap[g][name] IN
            /\ UNCHANGED <<m_allParametersMap, m_allParameters,
                           m_allGradients, store, nextHandle>>
            /\ IF TotalSize(store[p].shape) # TotalSize(viewShape)
               THEN call' = [rec EXCEPT !.path = "shape_mismatch", !.threw = TRUE]
               ELSE call' = [rec EXCEPT !.path = "existing", !.result = p]

\* param that honours fixed: a fixed parameter is created and named, but is
\* neither handed to the learner nor given a gradient entry
param_HonoursFixed(g, name, shape, init, fixed) ==
    LET viewShape == ToNDShape(shape)
        rec == [op |-> "param", graph |-> g, name |-> name, shape |-> shape,
                init |-> init, path |-> "", threw |-> FALSE, result |-> NullExpr]
    IN
    /\ UNCHANGED <<m_learner, learnersCreated>>
    /\ IF name \notin DOMAIN m_allParametersMap[g]
       THEN IF init.kind = "from_vector" /\ init.size # TotalSize(viewShape)
            THEN /\ call' = [rec EXCEPT !.path = "vector_size_mismatch", !.threw = TRUE]
                 /\ UNCHANGED <<m_allParametersMap, m_allParameters,
                                m_allGradients, store, nextHandle>>
            ELSE /\ NewParameter(nextHandle, viewShape, init)
                 /\ IF fixed
                    THEN /\ m_allParametersMap' =
                               [m_allParametersMap EXCEPT ![g] = @ @@ (name :> nextHandle)]
                         /\ UNCHANGED <<m_allParameters, m_allGradients>>
                    ELSE Register(g, name, nextHandle)
                 /\ call' = [rec EXCEPT
                                !.path = IF init.kind = "from_vector"
                                         THEN "create_from_vector" ELSE "create",
                                !.result = nextHandle]
       ELSE LET p == m_allParametersMap[g][name] IN
            /\ UNCHANGED <<m_allParametersMap, m_allParameters,
                           m_allGradients, store, nextHandle>>
            /\ IF store[p].shape # viewShape
               THEN call' = [rec EXCEPT !.path = "shape_mismatch", !.threw = TRUE]
               ELSE call' = [rec EXCEPT !.path = "existing", !.result = p]

param(g, name, shape, init, fixed) ==
    LET viewShape == ToNDShape(shape)
        rec == [op |-> "param", graph |-> g, name |-> name, shape |-> shape,
                init |-> init, path |-> "", threw |-> FALSE, result |-> NullExpr]
    IN
    /\ UNCHANGED <<m_learner, learnersCreated>>
    /\ IF name \notin DOMAIN m_allParametersMap[g]
       THEN \* case 1: create a new parameter
            IF init.kind = "from_vector"
            THEN IF init.size # TotalSize(viewShape)
                 THEN /\ call' = [rec EXCEPT !.path = "vector_size_mismatch", !.threw = TRUE]
                      /\ UNCHANGED <<m_allParametersMap, m_allParameters,
                                     m_allGradients, store, nextHandle>>
                 ELSE /\ NewParameter(nextHandle, viewShape, init)
                      /\ Register(g, name, nextHandle)
                      /\ call' = [rec EXCEPT !.path = "create_from_vector",
                                             !.result = nextHandle]
            ELSE /\ NewParameter(nextHandle, viewShape, init)
                 /\ Register(g, name, nextHandle)
                 /\ call' = [rec EXCEPT !.path = "create", !.result = nextHandle]
       ELSE \* case 2: retrieve an existing parameter
            LET p == m_allParametersMap[g][name] IN
            /\ UNCHANGED <<m_allParametersMap, m_allParameters,
                           m_allGradients, store, nextHandle>>
            /\ IF store[p].shape # viewShape
               THEN call' = [rec EXCEPT !.path = "shape_mismatch", !.threw = TRUE]
               ELSE call' = [rec EXCEPT !.path = "existing", !.result = p]

get(g, name) ==
    /\ call' = [NoCall EXCEPT !.op = "get", !.graph = g, !.name = name,
                   !.result = IF name \in DOMAIN m_allParametersMap[g]
                              THEN m_allParametersMap[g][name]
                              ELSE NullExpr]
    /\ UNCHANGED <<m_allParametersMap, m_allParameters, m_allGradients, store,
                   nextHandle, m_learner, learnersCreated>>

\* a clear that empties the parameter table
clear_ErasesParameters(g) ==
    /\ call' = [NoCall EXCEPT !.op = "clear", !.graph = g]
    /\ m_allParametersMap' = [m_allParametersMap EXCEPT ![g] = <<>>]
    /\ UNCHANGED <<m_allParameters, m_allGradients, store,
                   nextHandle, m_learner, learnersCreated>>

clear(g) ==
    /\ call' = [NoCall EXCEPT !.op = "clear", !.graph = g]
    /\ UNCHANGED <<m_allParametersMap, m_allParameters, m_allGradients, store,
                   nextHandle, m_learner, learnersCreated>>

setInference(g, inference) ==
    /\ m_inferenceOnly' = [m_inferenceOnly EXCEPT ![g] = inference]
    /\ call' = [NoCall EXCEPT !.op = "setInference", !.graph = g]
    /\ UNCHANGED <<m_allParametersMap, m_allParameters, m_allGradients, store,
                   nextHandle, m_learner, learnersCreated>>

\* CNTK::Variable::Backward(gradients): the engine writes a gradient for every
\* key of the map it is handed; a parameter the root does not depend on gets
\* an absent or a zero gradient.
EngineBackward(gradients, rootParams, unused) ==
    [p \in DOMAIN gradients |-> IF p \in rootParams THEN <<1>> ELSE unused]

backward(g, rootParams, unused) ==
    /\ m_allGradients' = [m_allGradients EXCEPT
                            ![g] = EngineBackward(@, rootParams, unused)]
    /\ call' = [NoCall EXCEPT !.op = "backward", !.graph = g]
    /\ UNCHANGED <<m_allParametersMap, m_allParameters, store, nextHandle,
                   m_learner, learnersCreated>>

\* lines 833-838: the learner is built over a copy of graph->m_allParameters
LazyCreateLearner(g) == [bound |-> TRUE, params |-> m_allParameters[g]]

\* CNTK::Learner::Update(gradients, 1): one step on each of the learner's
\* parameters that has a gradient in the map
LearnerUpdate(learner, gradients) ==
    [p \in DOMAIN store |->
        IF /\ p \in Range(learner.params)
           /\ p \in DOMAIN gradients
           /\ gradients[p] # NullGrad
        THEN [store[p] EXCEPT !.value = (@ + ValMod - gradients[p][1]) % ValMod]
        ELSE store[p]]

\* update without the test of m_learner: the learner is rebuilt at every call
update_Rebinds(g) ==
    LET learner == LazyCreateLearner(g)
    IN
    /\ m_learner' = learner
    /\ learnersCreated' = learnersCreated + 1
    /\ store' = LearnerUpdate(learner, m_allGradients[g])
    /\ call' = [NoCall EXCEPT !.op = "update", !.graph = g]
    /\ UNCHANGED <<m_allParametersMap, m_allParameters, m_allGradients, nextHandle>>

\* update that steps the parameters of the graph it is handed
update_StepsGraphParameters(g) ==
    LET create  == ~m_learner.bound
        learner == IF create THEN LazyCreateLearner(g) ELSE m_learner
    IN
    /\ m_learner' = learner
    /\ learnersCreated' = IF create THEN learnersCreated + 1 ELSE learnersCreated
    /\ store' = LearnerUpdate(LazyCreateLearner(g), m_allGradients[g])
    /\ call' = [NoCall EXCEPT !.op = "update", !.graph = g]
    /\ UNCHANGED <<m_allParametersMap, m_allParameters, m_allGradients, nextHandle>>

update(g) ==
    LET create  == ~m_learner.bound
        learner == IF create THEN LazyCreateLearner(g) ELSE m_learner
    IN
    /\ m_learner' = learner
    /\ learnersCreated' = IF create THEN learnersCreated + 1 ELSE learnersCreated
    /\ store' = LearnerUpdate(learner, m_allGradients[g])
    /\ call' = [NoCall EXCEPT !.op = "update", !.graph = g]
    /\ UNCHANGED <<m_allParametersMap, m_allParameters, m_allGradients, nextHandle>>

InitGraph ==
    /\ m_allParametersMap = [g \in Graphs |-> <<>>]
    /\ m_allParameters    = [g \in Graphs |-> <<>>]
    /\ m_allGradients     = [g \in Graphs |-> <<>>]
    /\ store = <<>>
    /\ nextHandle = 1
    /\ m_learner = Unbound
    /\ learnersCreated = 0
    /\ call = NoCall
    /\ m_inferenceOnly = [g \in Graphs |-> FALSE]

-----------------------------------------------------------------------------
(* One ExpressionGraph and one OptimizerWrapper *)

Init == InitGraph /\ IdleMappers /\ InitOptions /\ IdleOperators

Param    == /\ \E name \in Names, shape \in ParamShapes, init \in Inits, fixed \in BOOLEAN :
                  param("g1", name, shape, init, fixed)
            /\ UNCHANGED <<m_inferenceOnly, mapperVars, optionVars, operatorVars>>
Get      == /\ \E name \in Names : get("g1", name)
            /\ UNCHANGED <<m_inferenceOnly, mapperVars, optionVars, operatorVars>>
Clear    == /\ clear("g1")
            /\ UNCHANGED <<m_inferenceOnly, mapperVars, optionVars, operatorVars>>
Backward == /\ \E rootParams \in SUBSET DOMAIN store, unused \in {NullGrad, <<0>>} :
                  backward("g1", rootParams, unused)
            /\ UNCHANGED <<m_inferenceOnly, mapperVars, optionVars, operatorVars>>
Update   == /\ update("g1")
            /\ UNCHANGED <<m_inferenceOnly, mapperVars, optionVars, operatorVars>>

Next == Param \/ Get \/ Clear \/ Backward \/ Update

Spec == Init /\ [][Next]_vars

-----------------------------------------------------------------------------
(* One ExpressionGraph and one OptimizerWrapper, with setInference; every *)
(* parameter is trainable, and the engine leaves the gradient of a        *)
(* parameter the root does not depend on absent                           *)

SetInference == /\ \E inference \in BOOLEAN : setInference("g1", inference)
                /\ UNCHANGED <<mapperVars, optionVars, operatorVars>>
ParamTrainable == /\ \E name \in Names, shape \in ParamShapes, init \in Inits :
                        param("g1", name, shape, init, FALSE)
                  /\ UNCHANGED <<m_inferenceOnly, mapperVars, optionVars, operatorVars>>
BackwardOfRoot == /\ \E rootParams \in SUBSET DOMAIN store :
                        backward("g1", rootParams, NullGrad)
                  /\ UNCHANGED <<m_inferenceOnly, mapperVars, optionVars, operatorVars>>

NextLookup ==
    ParamTrainable \/ Get \/ Clear \/ SetInference \/ BackwardOfRoot \/ Update

SpecLookup == Init /\ [][NextLookup]_vars

-----------------------------------------------------------------------------
(* Two ExpressionGraphs and one OptimizerWrapper.  The optimizer's first    *)
(* update is made with g1; later ones with either graph.                    *)

\* the shape the parameters of the two graphs are requested with
TwoGraphShape == <<1, 2>>
\* ... and the initializer: a constant fill
TwoGraphInit == [kind |-> "constant", size |-> 0, value |-> 0]

ParamOnGraph == /\ \E g \in Graphs, name \in Names :
                      param(g, name, TwoGraphShape, TwoGraphInit, FALSE)
                /\ UNCHANGED <<m_inferenceOnly, mapperVars, optionVars, operatorVars>>
BackwardOnGraph == /\ \E g \in Graphs : \E rootParams \in SUBSET Range(m_allParameters[g]) :
                         backward(g, rootParams, NullGrad)
                   /\ UNCHANGED <<m_inferenceOnly, mapperVars, optionVars, operatorVars>>
UpdateFirstGraph == /\ update("g1")
                    /\ UNCHANGED <<m_inferenceOnly, mapperVars, optionVars, operatorVars>>
UpdateOtherGraph == /\ m_learner.bound
                    /\ update("g2")
                    /\ UNCHANGED <<m_inferenceOnly, mapperVars, optionVars, operatorVars>>

NextTwoGraphs ==
    ParamOnGraph \/ BackwardOnGraph \/ UpdateFirstGraph \/ UpdateOtherGraph

SpecTwoGraphs == Init /\ [][NextTwoGraphs]_vars

-----------------------------------------------------------------------------
(* One ExpressionGraph and one OptimizerWrapper; each call of param leaves *)
(* the value it was given for fixed in args                                *)

ParamFixed == /\ \E name \in Names, shape \in ParamShapes, init \in Inits, fixed \in BOOLEAN :
                    /\ param("g1", name, shape, init, fixed)
                    /\ args' = [fn |-> "param", fixed |-> fixed]
              /\ UNCHANGED <<m_inferenceOnly, mapperVars, optionVars, ecall, seed>>

\* backward from a root that depends on every parameter registered so far
BackwardOfAll == /\ backward("g1", Range(m_allParameters["g1"]), NullGrad)
                 /\ UNCHANGED <<m_inferenceOnly, mapperVars, optionVars, operatorVars>>

NextFixed == ParamFixed \/ BackwardOfAll \/ Update

SpecFixed == Init /\ [][NextFixed]_vars

-----------------------------------------------------------------------------
(* One expression built from a Marian shape, and one mapper call on it *)

InitMappers ==
    /\ InitGraph
    /\ InitOptions
    /\ IdleOperators
    /\ npShape \in MarianShapes
    /\ x = <<>>
    /\ mpc = "shape"
    /\ mcall = NoMCall

BuildExpr      == MakeExpr /\ UNCHANGED <<graphVars, optionVars, operatorVars>>
AxisOf         == /\ \E axisIndex \in AxisIndices : CallToCNTKAxis(axisIndex)
                  /\ UNCHANGED <<graphVars, optionVars, operatorVars>>
AxesOf         == /\ Len(x) <= MaxAxesRank
                  /\ \E axisIndices \in AxisSequences(Len(x)) : CallToCNTKAxes(axisIndices)
                  /\ UNCHANGED <<graphVars, optionVars, operatorVars>>
ShapeIndex     == /\ \E index \in AxisIndices : CallShapeIndex(index)
                  /\ UNCHANGED <<graphVars, optionVars, operatorVars>>
ToShape        == CallToShape /\ UNCHANGED <<graphVars, optionVars, operatorVars>>
CrossEntropy   == CallCrossEntropy /\ UNCHANGED <<graphVars, optionVars, operatorVars>>

NextMappers == BuildExpr \/ AxisOf \/ AxesOf \/ ShapeIndex \/ ToShape \/ CrossEntropy

SpecMappers == InitMappers /\ [][NextMappers]_vars

-----------------------------------------------------------------------------
(* Two Options objects *)

InitOptionsOnly == InitGraph /\ IdleMappers /\ InitOptions /\ IdleOperators

Set   == /\ \E this \in OptionObjects, key \in OptionKeys, value \in DictValues :
               set(this, key, value)
         /\ UNCHANGED <<graphVars, mapperVars, operatorVars>>
Merge == /\ \E this \in OptionObjects, other \in OptionObjects : merge(this, other)
         /\ UNCHANGED <<graphVars, mapperVars, operatorVars>>

SetString == /\ \E this \in OptionObjects, key \in OptionKeys, value \in OptionStrings :
                   set_string(this, key, value)
             /\ UNCHANGED <<graphVars, mapperVars, operatorVars>>
Has   == /\ \E this \in OptionObjects, key \in OptionKeys : has(this, key)
         /\ UNCHANGED <<graphVars, mapperVars, operatorVars>>
GetValue  == /\ \E this \in OptionObjects, key \in OptionKeys, T \in ValueTypes :
                   Options_get(this, key, T)
             /\ UNCHANGED <<graphVars, mapperVars, operatorVars>>
GetOrDefault == /\ \E this \in OptionObjects, key \in OptionKeys, T \in ValueTypes :
                      Options_get_deflt(this, key, T, Default(T))
                /\ UNCHANGED <<graphVars, mapperVars, operatorVars>>

NextOptions == Set \/ SetString \/ Merge \/ Has \/ GetValue \/ GetOrDefault

SpecOptions == InitOptionsOnly /\ [][NextOptions]_vars

-----------------------------------------------------------------------------
(* One Options object: one string stored, then read back *)

MaxStrLen == 2

\* the values of a char, as unsigned bytes
Bytes == 0..255

\* bytes at the edges of 7-bit ASCII and of the char range
SampleBytes == {0, 65, 127, 128, 255}

\* every string of one byte, and the strings of sample bytes up to MaxStrLen
NarrowStrings ==
    { <<c>> : c \in Bytes } \cup UNION { [1..n -> SampleBytes] : n \in 0..MaxStrLen }

StoreString == /\ ocall.op = "none"
               /\ \E value \in NarrowStrings : set_string("A", <<115>>, value)
               /\ UNCHANGED <<graphVars, mapperVars, operatorVars>>
ReadString  == /\ ocall.op = "set"
               /\ Options_get("A", <<115>>, "String")
               /\ UNCHANGED <<graphVars, mapperVars, operatorVars>>

NextStrings == StoreString \/ ReadString

SpecStrings == InitOptionsOnly /\ [][NextStrings]_vars

-----------------------------------------------------------------------------
(* One operator or cost function applied to drawn arguments *)

OperatorArgs ==
    ScalarOpArgs \cup DropoutArgs \cup CostArgs \cup GuidedArgs \cup FunctionArgs
    \cup AffineArgs \cup PlusArgs

InitOperators ==
    /\ InitGraph
    /\ IdleMappers
    /\ InitOptions
    /\ args \in OperatorArgs
    /\ ecall = NoECall
    /\ seed = 1

NextOperators ==
    \/ CallScalarOp
    \/ CallDropout
    \/ CallCost
    \/ CallGuidedAlignmentCost
    \/ CallFunction
    \/ CallAffine
    \/ CallPlus

SpecOperators == InitOperators /\ [][NextOperators]_vars

-----------------------------------------------------------------------------
(* Properties of ExpressionGraph::param and OptimizerWrapper::update *)

\* the shape of a registered parameter as Expr::shape() reports it
RegisteredShape(g, name) == ShapeProxyToShape(store[m_allParametersMap[g][name]].shape)

Occurrences(seq, e) == Cardinality({ i \in DOMAIN seq : seq[i] = e })

GraphUnchanged ==
    UNCHANGED <<m_allParametersMap, m_allParameters, m_allGradients, store, nextHandle>>

\* C1: a param call that names a registered parameter and passes the shape
\* it was registered with returns the handle the table holds for the name,
\* which is the handle the creating call returned, and allocates nothing: the
\* table, the list and the gradient map are unchanged and hold one entry for
\* the name; this for every initializer and every value of 'fixed'.
C1_ParamReturnsExistingHandle ==
    [][ /\ call'.op = "param"
           => LET g == call'.graph
                  n == call'.name
              IN  /\ ( n \in DOMAIN m_allParametersMap[g]
                       /\ RegisteredShape(g, n) = call'.shape )
                     => /\ ~call'.threw
                        /\ call'.result = m_allParametersMap[g][n]
                        /\ GraphUnchanged
                        /\ Occurrences(m_allParameters'[g], call'.result) = 1
                        /\ call'.result \in DOMAIN m_allGradients'[g]
                        /\ Cardinality(DOMAIN m_allGradients'[g])
                             = Cardinality(DOMAIN m_allParametersMap'[g])
                  \* the creating call returns the handle it stores in the table
                  /\ ( n \notin DOMAIN m_allParametersMap[g] /\ ~call'.threw )
                     => /\ n \in DOMAIN m_allParametersMap'[g]
                        /\ call'.result = m_allParametersMap'[g][n]
        \* and no step replaces the handle the table holds for a name
        /\ \A g \in Graphs : \A n \in DOMAIN m_allParametersMap[g] :
              /\ n \in DOMAIN m_allParametersMap'[g]
              /\ m_allParametersMap'[g][n] = m_allParametersMap[g][n]
      ]_vars

\* a repeated request (same shape, another initializer than the creating
\* one) has returned the registered handle while both names are registered
C1_Witness ==
    /\ call.op = "param"
    /\ call.path = "existing"
    /\ call.init.kind = "from_vector"
    /\ call.init.size # TotalSize(call.shape)
    /\ DOMAIN m_allParametersMap["g1"] = Names
    /\ call.result = m_allParametersMap["g1"][call.name]
    /\ store[call.result].value = 0

\* C2: a param call that names a registered parameter with another shape
\* than the registered one, and a first registration whose from_vector
\* initializer has another element count than the shape, throws, returns no
\* handle and leaves table, list and gradient map as they were.
C2_ParamMismatchThrowsAndChangesNothing ==
    [][ call'.op = "param"
        => LET g == call'.graph
               n == call'.name
               mismatch ==
                   IF n \in DOMAIN m_allParametersMap[g]
                   THEN RegisteredShape(g, n) # call'.shape
                   ELSE /\ call'.init.kind = "from_vector"
                        /\ call'.init.size # TotalSize(call'.shape)
           IN  mismatch => /\ call'.threw
                           /\ call'.result = NullExpr
                           /\ GraphUnchanged
      ]_vars

\* a request with the extents of the registered shape swapped (same element
\* count) has thrown
C2_Witness ==
    /\ call.op = "param"
    /\ call.threw
    /\ call.name \in DOMAIN m_allParametersMap["g1"]
    /\ RegisteredShape("g1", call.name) # call.shape
    /\ TotalSize(RegisteredShape("g1", call.name)) = TotalSize(call.shape)

\* C3: in every reachable state the keys of the gradient map are the handles
\* of the table and the elements of the list, which has no duplicates; and
\* a gradient entry is null when it is created and stays null in every step
\* that is not a backward pass.
C3_KeySetsAgree ==
    \A g \in Graphs :
        /\ DOMAIN m_allGradients[g] = Range(m_allParametersMap[g])
        /\ DOMAIN m_allGradients[g] = Range(m_allParameters[g])
        /\ Cardinality(Range(m_allParameters[g])) = Len(m_allParameters[g])

C3_GradientMapDomain ==
    /\ []C3_KeySetsAgree
    /\ [][ \A g \in Graphs : \A p \in DOMAIN m_allGradients'[g] :
              /\ p \notin DOMAIN m_allGradients[g] => m_allGradients'[g][p] = NullGrad
              /\ ( p \in DOMAIN m_allGradients[g]
                   /\ m_allGradients[g][p] = NullGrad
                   /\ call'.op # "backward" )
                 => m_allGradients'[g][p] = NullGrad
          ]_vars

\* after failing and succeeding param calls, a backward pass and an update:
\* two parameters, one with a gradient and one whose entry is still null
C3_Witness ==
    /\ Len(m_allParameters["g1"]) = 2
    /\ m_learner.bound
    /\ \E p, q \in DOMAIN m_allGradients["g1"] :
          /\ m_allGradients["g1"][p] = <<1>>
          /\ m_allGradients["g1"][q] = NullGrad
    /\ call.op = "param"
    /\ call.threw

\* C4: the learner is constructed once, by the first update call, over the
\* parameters the graph holds at that call; afterwards it is never rebuilt,
\* and no step changes the value of a parameter outside the learner's set.
C4_LearnerBoundOnce ==
    [][ /\ m_learner.bound
           => /\ m_learner' = m_learner
              /\ learnersCreated' = learnersCreated
        /\ ~m_learner.bound
           => /\ learnersCreated = 0
              /\ call'.op = "update"
                 => /\ m_learner'.bound
                    /\ m_learner'.params = m_allParameters[call'.graph]
                    /\ learnersCreated' = 1
              /\ call'.op # "update"
                 => /\ ~m_learner'.bound
                    /\ learnersCreated' = 0
        /\ \A p \in DOMAIN store :
              p \notin Range(m_learner'.params) => store'[p] = store[p]
      ]_vars

\* an update has just run while a parameter registered after the first
\* update holds a gradient, and that parameter still has its initial value
C4_Witness ==
    /\ call.op = "update"
    /\ m_learner.bound
    /\ Len(m_learner.params) = 1
    /\ \E p \in DOMAIN store :
          /\ p \notin Range(m_learner.params)
          /\ m_allGradients["g1"][p] = <<1>>
          /\ store[p].value = 0
    /\ \E q \in Range(m_learner.params) : store[q].value # 0

-----------------------------------------------------------------------------
(* Properties of the mappers and of cross_entropy *)

\* C5: for an axis index a with -rank <= a < rank, ToCNTKAxis returns
\* rank - 1 - (a < 0 ? a + rank : a), which lies in [0, rank), and a
\* non-negative a and its alias a - rank give the same axis; for every
\* other a the call throws.
C5_ToCNTKAxis ==
    mcall.op = "ToCNTKAxis"
    => LET r == Len(x)
           a == mcall.index
       IN  IF -r <= a /\ a < r
           THEN /\ ~mcall.threw
                /\ mcall.value = r - 1 - (IF a < 0 THEN a + r ELSE a)
                /\ mcall.value \in 0..(r - 1)
                /\ a >= 0 => ToCNTKAxis(x, a - r) = [threw |-> FALSE, axis |-> mcall.value]
           ELSE mcall.threw

\* axis 1 of a rank-4 expression is CNTK axis 2
C5_Witness ==
    /\ mcall.op = "ToCNTKAxis"
    /\ Len(x) = 4
    /\ mcall.index = 1
    /\ ~mcall.threw
    /\ mcall.value = 2

\* C6: the view shape built from a Shape has the Shape's rank and element
\* count and its extents in reversed order, and converting it back through
\* ShapeProxy's conversion to Shape gives the Shape again.
C6_ShapeRoundTrip ==
    mpc \in {"expr", "done"}
    => /\ Len(x) = Len(npShape)
       /\ TotalSize(x) = Product(npShape)
       /\ \A k \in 1..Len(x) : x[k] = npShape[Len(npShape) + 1 - k]
       /\ mcall.op = "toShape" => mcall.seq = npShape

\* a rank-6 Shape that differs from its reversal has made the round trip
C6_Witness ==
    /\ mcall.op = "toShape"
    /\ npShape = <<1, 2, 1, 1, 2, 2>>
    /\ x = <<2, 2, 1, 1, 2, 1>>
    /\ mcall.seq = npShape

\* C7: for -rank <= i < rank, shape()[i] is the extent of the view shape at
\* the axis ToCNTKAxis computes for i, and for i >= 0 it equals
\* shape()[i - rank].
C7_ShapeIndex ==
    mcall.op = "index"
    => LET r == Len(x)
           i == mcall.index
       IN  (-r <= i /\ i < r)
           => /\ ~mcall.threw
              /\ ~ToCNTKAxis(x, i).threw
              /\ mcall.value = NDShapeAt(x, ToCNTKAxis(x, i).axis)
              /\ i >= 0 => ShapeProxyIndex(x, i - r) = mcall.value

\* shape()[0] of the view shape (1, 1, 2) is 2, its last extent
C7_Witness ==
    /\ mcall.op = "index"
    /\ x = <<1, 1, 2>>
    /\ mcall.index = 0
    /\ mcall.value = 2

\* C8: for axis indices that are all valid for x, ToCNTKAxes returns the
\* converted indices in reversed order; if one is out of range the call
\* throws and returns no sequence.
C8_ToCNTKAxes ==
    mcall.op = "ToCNTKAxes"
    => LET r == Len(x)
           n == Len(mcall.axes)
       IN  IF \A k \in 1..n : -r <= mcall.axes[k] /\ mcall.axes[k] < r
           THEN /\ ~mcall.threw
                /\ Len(mcall.seq) = n
                /\ \A k \in 1..n :
                      mcall.seq[k] = ToCNTKAxis(x, mcall.axes[n + 1 - k]).axis
           ELSE /\ mcall.threw
                /\ mcall.seq = <<>>

\* the axes (0, 1) of a rank-3 expression become the CNTK axes (1, 2)
C8_Witness ==
    /\ mcall.op = "ToCNTKAxes"
    /\ Len(x) = 3
    /\ mcall.axes = <<0, 1>>
    /\ mcall.seq = <<1, 2>>

\* C9 as claimed: the class count of cross_entropy is the extent at emulated
\* axis 0 (CNTK axis rank - 1), and the one-hot encoding and the softmax
\* cross-entropy run along that axis.
C9_ClassAxisIsEmulatedAxis0 ==
    (mcall.op = "cross_entropy" /\ Len(x) >= 1)
    => /\ ~mcall.threw
       /\ mcall.value = ShapeProxyIndex(x, 0)
       /\ mcall.seq = <<ToCNTKAxis(x, 0).axis, ToCNTKAxis(x, 0).axis>>

\* C9 amended: for logits of rank >= 1 the class count of cross_entropy is
\* the extent at CNTK axis 0, which is the last emulated axis (emulated
\* axis rank - 1, alias -1), and the one-hot encoding and the softmax
\* cross-entropy run along CNTK axis 0.
C9_ClassAxisIsEngineAxis0 ==
    (mcall.op = "cross_entropy" /\ Len(x) >= 1)
    => /\ ~mcall.threw
       /\ mcall.value = NDShapeAt(x, 0)
       /\ mcall.value = ShapeProxyIndex(x, -1)
       /\ mcall.value = ShapeProxyIndex(x, Len(x) - 1)
       /\ mcall.seq = <<0, 0>>
       /\ ToCNTKAxis(x, -1) = [threw |-> FALSE, axis |-> 0]

\* logits of view shape (2, 1): the class count is 2, the extent of CNTK
\* axis 0, while the extent at emulated axis 0 is 1
C9_Witness ==
    /\ mcall.op = "cross_entropy"
    /\ x = <<2, 1>>
    /\ mcall.value = 2
    /\ ShapeProxyIndex(x, 0) = 1
    /\ mcall.seq = <<0, 0>>

-----------------------------------------------------------------------------
(* Properties of Options *)

\* C10: after this->merge(other) the keys of this are the keys of both,
\* every key this had keeps its value, every key only other had has other's
\* value, and other (like every other Options object) is unchanged.
C10_MergeKeepsExistingKeys ==
    [][ ocall'.op = "merge"
        => LET this  == ocall'.this
               other == ocall'.other
           IN  /\ DOMAIN opts'[this] = DOMAIN opts[this] \cup DOMAIN opts[other]
               /\ \A k \in DOMAIN opts[this] : opts'[this][k] = opts[this][k]
               /\ \A k \in DOMAIN opts[other] \ DOMAIN opts[this] :
                     opts'[this][k] = opts[other][k]
               /\ opts'[other] = opts[other]
               /\ \A o \in OptionObjects \ {this} : opts'[o] = opts[o]
      ]_vars

\* A.merge(B) has copied the key "s" while the key "lr", present in both
\* with different values, kept A's value
C10_Witness ==
    /\ ocall.op = "merge"
    /\ ocall.this = "A"
    /\ ocall.other = "B"
    /\ ocall.copied = {widen(<<115>>)}
    /\ DOMAIN opts["A"] = {widen(<<108, 114>>), widen(<<115>>)}
    /\ DOMAIN opts["B"] = DOMAIN opts["A"]
    /\ opts["A"][widen(<<108, 114>>)] # opts["B"][widen(<<108, 114>>)]
    /\ opts["A"][widen(<<115>>)] = opts["B"][widen(<<115>>)]

\* C11: set(key, value) stores value under key and touches no other entry;
\* has(key) is true exactly when key is stored; get<T>(key) returns the stored
\* value when key is stored under kind T and fails when key is absent or
\* stored under another kind; get<T>(key, deflt) returns deflt exactly when
\* key is absent and otherwise behaves like get<T>(key); has and get leave
\* every dictionary unchanged.
C11_SetHasGet ==
    [][ LET this == ocall'.this
            key  == widen(ocall'.key)
            T    == ocall'.T
            stored == key \in DOMAIN opts[this]
            read == IF opts[this][key].kind = "String"
                    THEN StringValue(narrow(opts[this][key].str))
                    ELSE opts[this][key]
        IN  /\ ocall'.op = "set"
               => /\ DOMAIN opts'[this] = DOMAIN opts[this] \cup {key}
                  /\ opts'[this][key].kind = ocall'.value.kind
                  /\ opts'[this][key].val = ocall'.value.val
                  /\ narrow(opts'[this][key].str) = ocall'.value.str
                  /\ \A k \in DOMAIN opts[this] \ {key} : opts'[this][k] = opts[this][k]
                  /\ \A o \in OptionObjects \ {this} : opts'[o] = opts[o]
            /\ ocall'.op = "has"
               => /\ ocall'.found = stored
                  /\ opts' = opts
            /\ ocall'.op = "get"
               => /\ ocall'.threw = (~stored \/ opts[this][key].kind # T)
                  /\ ~ocall'.threw => ocall'.result = read
                  /\ opts' = opts
            /\ ocall'.op = "get_deflt"
               => /\ ocall'.threw = (stored /\ opts[this][key].kind # T)
                  /\ ~stored => ocall'.result = ocall'.value
                  /\ (stored /\ ~ocall'.threw) => ocall'.result = read
                  /\ opts' = opts
      ]_vars

\* get<std::string>("lr", "d") on A, where "lr" is stored as an int, has
\* failed instead of returning "d"
C11_Witness ==
    /\ ocall.op = "get_deflt"
    /\ ocall.this = "A"
    /\ ocall.key = <<108, 114>>
    /\ ocall.T = "String"
    /\ ocall.threw
    /\ widen(<<108, 114>>) \in DOMAIN opts["A"]
    /\ opts["A"][widen(<<108, 114>>)].kind = "Int"

-----------------------------------------------------------------------------
(* Properties of the operators and cost functions *)

\* C12: x + 0, 0 + x, x * 1, 1 * x and x / 1 return the handle x and create
\* no node; x + s, s + x, x * s, s * x and x / s with any other scalar s
\* create exactly one scalar constant of value s and one arithmetic node over
\* x and that constant, in the order written, and return that node.
C12_ScalarShortcuts ==
    (ecall.op = "scalar_op" /\ args.op \in {"+", "*", "/"}
        /\ ~(args.op = "/" /\ args.scalarFirst))
    => LET neutral == IF args.op = "+" THEN 0 ELSE 1
           kind == CASE args.op = "+" -> "Plus"
                     [] args.op = "*" -> "ElementTimes"
                     [] args.op = "/" -> "ElementDivide"
           constant == NumInputs + 1
       IN  IF args.scalar.val = neutral
           THEN /\ ecall.result = args.expr
                /\ ecall.created = <<>>
           ELSE /\ Len(ecall.created) = 2
                /\ ecall.created[1] = [kind |-> "Constant", value |-> args.scalar.val,
                                        inputs |-> <<>>]
                /\ ecall.created[2].kind = kind
                /\ ecall.created[2].inputs =
                      IF args.scalarFirst THEN <<constant, args.expr>>
                      ELSE <<args.expr, constant>>
                /\ ecall.result = NumInputs + 2

\* x / 1.0 on the second expression gave that expression back
C12_Witness ==
    /\ ecall.op = "scalar_op"
    /\ args.op = "/"
    /\ ~args.scalarFirst
    /\ args.scalar = [type |-> "double", val |-> 1]
    /\ args.expr = 2
    /\ ecall.result = 2
    /\ ecall.created = <<>>

\* C13: the mask of dropout(x, prob) has as many elements as x, each element
\* is 0 or 1 / (1 - prob), with prob = 0 every element is 1 and with prob = 1
\* every element is 0, whatever rand() returned.
C13_DropoutMask ==
    ecall.op = "dropout"
    => LET data == ecall.mask.data
           inv  == [num |-> ProbDen, den |-> ProbDen - args.dropProb]
       IN  /\ Len(data) = TotalSize(args.shape)
           /\ \A i \in 1..Len(data) : data[i] = ZeroFloat \/ data[i] = inv
           /\ args.dropProb = 0
              => \A i \in 1..Len(data) : data[i].num = data[i].den /\ data[i].den # 0
           /\ args.dropProb = ProbDen
              => \A i \in 1..Len(data) : data[i] = ZeroFloat

\* the index of sequence position t of batch entry b: the batch axis is
\* engine axis 1 and the sequence axis engine axis 2
At(viewShape, t, b) ==
    [k \in 1..Len(viewShape) |-> IF k = 2 THEN b ELSE IF k = 3 THEN t ELSE 1]

SeqLen(viewShape) == viewShape[3]
BatchSize(viewShape) == viewShape[2]

RECURSIVE SumOf(_, _)
SumOf(f, S) ==
    IF S = {} THEN 0
    ELSE LET i == CHOOSE j \in S : TRUE IN f[i] + SumOf(f, S \ {i})

\* twice the per-token cross-entropy when smoothing is on (else once), times
\* the mask when there is one
MaskedToken(t, b) ==
    LET i == At(args.ce.shape, t, b)
        token == IF args.smoothing > 0
                 THEN (2 - args.smoothing) * args.ce.data[i].num
                        - args.smoothing * args.ceq.data[i].num
                 ELSE args.ce.data[i].num
    IN  IF args.mask.null THEN token ELSE token * args.mask.data[i].num

TokenDen == IF args.smoothing > 0 THEN 2 ELSE 1

SequenceSum(b) ==
    SumOf([t \in 1..SeqLen(args.ce.shape) |-> MaskedToken(t, b)],
          1..SeqLen(args.ce.shape))

TotalSum ==
    SumOf([b \in 1..BatchSize(args.ce.shape) |-> SequenceSum(b)],
          1..BatchSize(args.ce.shape))

MaskSum ==
    SumOf([i \in Indices(args.mask.shape) |-> args.mask.data[i].num],
          Indices(args.mask.shape))

\* the float value is num / den; 0 / 0 and n / 0 are compared by numerator
IsValue(f, num, den, isExp) ==
    /\ f.exp = isExp
    /\ f.num * den = num * f.den
    /\ (f.den = 0) = (den = 0)
    /\ den = 0 => (f.num = 0) = (num = 0)

\* C14: with ce the masked per-token cross-entropy, "ce-sum" is the sum of ce
\* over sequence and batch, "ce-mean-words" that sum over the sum of the mask,
\* "perplexity" the exponential of that quotient, "ce-rescore" per batch entry
\* the negated sum over the sequence, and "ce-mean", "cross-entropy" and any
\* other costType the sum over sequence and batch over the batch size.
C14_CostReductions ==
    ecall.op = "Cost"
    => LET cost == ecall.cost
           shape == args.ce.shape
           one == At(shape, 1, 1)
           scalarShape == [k \in 1..Len(shape) |-> 1]
       IN  CASE args.costType = "ce-sum" ->
                  /\ Usable(cost) /\ cost.shape = scalarShape
                  /\ IsValue(cost.data[one], TotalSum, TokenDen, FALSE)
             [] args.costType = "ce-mean-words" ->
                  ~args.mask.null
                  => /\ Usable(cost) /\ cost.shape = scalarShape
                     /\ IsValue(cost.data[one], TotalSum, TokenDen * MaskSum, FALSE)
             [] args.costType = "perplexity" ->
                  ~args.mask.null
                  => /\ Usable(cost) /\ cost.shape = scalarShape
                     /\ IsValue(cost.data[one], TotalSum, TokenDen * MaskSum, TRUE)
             [] args.costType = "ce-rescore" ->
                  /\ Usable(cost)
                  /\ cost.shape = [shape EXCEPT ![3] = 1]
                  /\ \A b \in 1..BatchSize(shape) :
                        IsValue(cost.data[At(shape, 1, b)], -SequenceSum(b), TokenDen, FALSE)
             [] OTHER ->
                  /\ Usable(cost) /\ cost.shape = scalarShape
                  /\ IsValue(cost.data[one], TotalSum, TokenDen * BatchSize(shape), FALSE)

\* "ce-mean-words" over two sequences of two tokens of cross-entropy 2, three
\* of them valid: the cost is 6 / 3
C14_Witness ==
    /\ ecall.op = "Cost"
    /\ args.costType = "ce-mean-words"
    /\ args.smoothing = 0
    /\ args.ce.shape = <<1, 2, 2>>
    /\ \A i \in Indices(<<1, 2, 2>>) : args.ce.data[i].num = 2
    /\ ~args.mask.null
    /\ MaskSum = 3
    /\ Usable(ecall.cost)
    /\ ecall.cost.data[<<1, 1, 1>>] = Frac(6, 3)

\* what the Options object of the call holds under "guided-alignment-cost"
ConfiguredCostType ==
    IF widen(GuidedAlignmentCostKey) \in DOMAIN args.options
    THEN args.options[widen(GuidedAlignmentCostKey)]
    ELSE NoValue

ConfiguredWeight ==
    IF widen(GuidedAlignmentWeightKey) \in DOMAIN args.options
    THEN args.options[widen(GuidedAlignmentWeightKey)]
    ELSE NoValue

\* the extent of the batch axis of att, the first axis of its Marian shape
AttBatchSize == args.att[Len(args.att)]

\* C15 as stated: a guidedAlignmentCost that returns has divided the loss,
\* "mse", "mult" or "ce", by the batch size of att and by nothing else, and
\* multiplied it by the configured weight.
C15_DividedByBatchSize ==
    (ecall.op = "guidedAlignmentCost" /\ ~ecall.cost.failed)
    => /\ ecall.cost.divisor = AttBatchSize
       /\ ecall.cost.weight = ConfiguredWeight.val

\* C15, amended: a guidedAlignmentCost that returns has divided the "mult"
\* and "ce" losses by the batch size of att and the "mse" loss by twice the
\* batch size, and multiplied by the configured weight.
C15_MseDividedByTwiceBatchSize ==
    (ecall.op = "guidedAlignmentCost" /\ ~ecall.cost.failed)
    => /\ ecall.cost.loss = narrow(ConfiguredCostType.str)
       /\ ecall.cost.divisor = IF ecall.cost.loss = <<109, 115, 101>>
                                THEN 2 * AttBatchSize ELSE AttBatchSize
       /\ ecall.cost.weight = ConfiguredWeight.val

\* "mse" on a batch of 2 with weight 2: the loss times 2 over 4
C15_Witness ==
    /\ ecall.op = "guidedAlignmentCost"
    /\ ~ecall.cost.failed
    /\ ecall.cost.loss = <<109, 115, 101>>
    /\ AttBatchSize = 2
    /\ ecall.cost.weight = 2
    /\ ecall.cost.divisor = 4

\* C16: when "guided-alignment-cost" holds anything but "mse", "mult" or
\* "ce", guidedAlignmentCost fails and returns no cost; a cost it returns is
\* the loss the option names.
C16_UnknownCostTypeFails ==
    ecall.op = "guidedAlignmentCost"
    => LET known == { StringValue(widen(t)) :
                        t \in {<<109, 115, 101>>, <<109, 117, 108, 116>>, <<99, 101>>} }
       IN  /\ ConfiguredCostType \notin known
              => ecall.cost = [failed |-> TRUE, loss |-> <<>>, weight |-> 0, divisor |-> 1]
           /\ ~ecall.cost.failed => StringValue(widen(ecall.cost.loss)) = ConfiguredCostType

\* the option holds "l1", the weight and the alignment are in order, and the
\* call has failed
C16_Witness ==
    /\ ecall.op = "guidedAlignmentCost"
    /\ ConfiguredCostType = StringValue(widen(<<108, 49>>))
    /\ ConfiguredWeight.kind = "Float"
    /\ args.alnExtra = 0
    /\ ecall.cost.failed

\* the operators without an engine mapping, and the three other functions
\* that are not supported
Unimplemented ==
    {"leakyrelu", "prelu", "dot", "bdot", "select", "softmax_mask", "layer_norm",
     "highway", "highway_prefix", "shift", "convert2cudnnFormat",
     "convertFromcudnnFormat", "avg_pooling", "max_pooling",
     "pooling_with_masking", "from_word2vec", "CorpusBatch::split", "Options::str"}

WxPlusB(i, j) ==
    args.W[i][1] * args.xs[1][j] + args.W[i][2] * args.xs[2][j] + args.b[i][1]
xWPlusB(i, j) ==
    args.xs[i][1] * args.W[1][j] + args.xs[i][2] * args.W[2][j] + args.b[i][1]

\* C19: affine(x, W, b) is W . x + b element for element, and where x is
\* square and x . W + b differs from W . x + b in some element, affine(x, W, b)
\* differs from x . W + b in that element.
C19_AffineIsWxPlusB ==
    ecall.op = "affine"
    => /\ ~ecall.y.failed
       /\ Len(ecall.y.value) = 2
       /\ \A i \in 1..2 :
             /\ Len(ecall.y.value[i]) = Len(args.xs[1])
             /\ \A j \in 1..Len(args.xs[1]) :
                   /\ ecall.y.value[i][j] = WxPlusB(i, j)
                   /\ (Len(args.xs[1]) = 2 /\ WxPlusB(i, j) # xWPlusB(i, j))
                      => ecall.y.value[i][j] # xWPlusB(i, j)

\* W = [[1,2],[3,4]], x = [5,6], b = [1,1] gave [18, 40]
C19_Witness ==
    /\ ecall.op = "affine"
    /\ args = ExampleAffine
    /\ ecall.y = [failed |-> FALSE, value |-> <<<<18>>, <<40>>>>]

-----------------------------------------------------------------------------
(* Properties of ExpressionGraph::get *)

\* C20: no step removes a name from the parameter table or changes the
\* handle stored under it; a name enters the table only in a param call on
\* that name that succeeds and returns the handle stored; get(name) returns
\* the handle stored under name, and the empty expression exactly when name
\* is not in the table.
C20_GetReturnsRegisteredHandle ==
    [][ LET before == m_allParametersMap["g1"]
            after  == m_allParametersMap'["g1"]
        IN  /\ \A n \in DOMAIN before : n \in DOMAIN after /\ after[n] = before[n]
            /\ \A n \in DOMAIN after \ DOMAIN before :
                  /\ call'.op = "param"
                  /\ call'.name = n
                  /\ ~call'.threw
                  /\ call'.result = after[n]
            /\ \A n \in DOMAIN after : after[n] # NullExpr
            /\ (call'.op = "param" /\ ~call'.threw)
               => /\ call'.name \in DOMAIN after
                  /\ call'.result = after[call'.name]
            /\ call'.op = "get"
               => /\ call'.name \in DOMAIN before => call'.result = before[call'.name]
                  /\ (call'.result = NullExpr) = (call'.name \notin DOMAIN before)
                  /\ after = before
      ]_vars

\* get("W1") has returned the handle of W1 after setInference(true), a
\* backward pass and an update, with W2 registered as well
C20_Witness ==
    /\ call.op = "get"
    /\ call.name = "W1"
    /\ DOMAIN m_allParametersMap["g1"] = {"W1", "W2"}
    /\ call.result = m_allParametersMap["g1"]["W1"]
    /\ m_inferenceOnly["g1"]
    /\ m_learner.bound
    /\ \E p \in DOMAIN m_allGradients["g1"] : m_allGradients["g1"][p] # NullGrad

-----------------------------------------------------------------------------
\* the parameters that belong to graph g and to no other graph
OnlyInGraph(g) ==
    { p \in DOMAIN store : /\ p \in Range(m_allParameters[g])
                           /\ \A h \in Graphs \ {g} : p \notin Range(m_allParameters[h]) }

\* C21: with two graphs, once the optimizer's first update has been made with
\* g1, a later update with g2 does not rebind the learner: m_learner and the
\* number of learners created stay as they are, the learner's parameters are
\* the ones g1 had at the first update, the update is handed g2's gradient
\* map, and no parameter of g2 is ever changed by the optimizer.
C21_LaterGraphDoesNotRebind ==
    [][ /\ (m_learner.bound /\ call'.op = "update")
            => /\ m_learner' = m_learner
               /\ learnersCreated' = learnersCreated
        /\ (~m_learner.bound /\ m_learner'.bound)
            => /\ call'.op = "update" /\ call'.graph = "g1"
               /\ m_learner'.params = m_allParameters["g1"]
        /\ (call'.op = "update" /\ call'.graph = "g2")
            => store' = LearnerUpdate(m_learner, m_allGradients["g2"])
        /\ \A p \in OnlyInGraph("g2") : store'[p] = store[p]
        /\ Range(m_learner'.params) \cap OnlyInGraph("g2")' = {}
      ]_vars

\* an update with g2 has just run on a learner bound to g1's parameter, while
\* g2 holds a parameter with a gradient
C21_Witness ==
    /\ call.op = "update" /\ call.graph = "g2"
    /\ m_learner.bound
    /\ m_learner.params # <<>>
    /\ m_learner.params = m_allParameters["g1"]
    /\ \E p \in OnlyInGraph("g2") : m_allGradients["g2"][p] # NullGrad

-----------------------------------------------------------------------------
\* C22: param ignores its argument fixed.  Every call of param with fixed = f
\* leaves the graph in exactly the state the same call with fixed = ~f leaves
\* it in; a call that creates the parameter, with fixed = TRUE as with
\* fixed = FALSE, appends it to m_allParameters (the list a learner created
\* from now on is built over) and gives it a null entry in m_allGradients.
C22_FixedIsIgnored ==
    [][ (call'.op = "param" /\ args'.fn = "param")
        => /\ param("g1", call'.name, call'.shape, call'.init, args'.fixed)
           /\ param("g1", call'.name, call'.shape, call'.init, ~args'.fixed)
           /\ call'.path \in {"create", "create_from_vector"}
              => /\ m_allParameters'["g1"] = Append(m_allParameters["g1"], call'.result)
                 /\ call'.result \in Range(LazyCreateLearner("g1").params)'
                 /\ call'.result \notin DOMAIN m_allGradients["g1"]
                 /\ call'.result \in DOMAIN m_allGradients'["g1"]
                 /\ m_allGradients'["g1"][call'.result] = NullGrad
      ]_vars

\* a call of param with fixed = TRUE has just created a parameter, next to
\* one that was there already
C22_Witness ==
    /\ call.op = "param"
    /\ call.path \in {"create", "create_from_vector"}
    /\ args.fn = "param" /\ args.fixed
    /\ Len(m_allParameters["g1"]) = 2
    /\ m_allParameters["g1"][2] = call.result
    /\ call.result \in DOMAIN m_allGradients["g1"]
    /\ m_allGradients["g1"][call.result] = NullGrad

-----------------------------------------------------------------------------
\* the number of Plus nodes of an expression
RECURSIVE PlusNodes(_)
PlusNodes(a) ==
    IF a.kind = "Plus" THEN 1 + PlusNodes(a.inputs[1]) + PlusNodes(a.inputs[2]) ELSE 0

\* the leaves of an expression, left to right
RECURSIVE Leaves(_)
Leaves(a) ==
    IF a.kind = "Plus" THEN Leaves(a.inputs[1]) \o Leaves(a.inputs[2]) ELSE <<a>>

\* every node is a Plus of two inputs, every leaf an expression of the list
RECURSIVE IsBinaryPlusTree(_)
IsBinaryPlusTree(a) ==
    \/ a.kind = "Input"
    \/ /\ a.kind = "Plus"
       /\ Len(a.inputs) = 2
       /\ IsBinaryPlusTree(a.inputs[1])
       /\ IsBinaryPlusTree(a.inputs[2])

\* C23: plus(xs) over a list of n >= 1 expressions returns, without reading
\* through xs.end(), a binary tree of exactly n - 1 Plus nodes whose leaves,
\* read left to right, are xs[0], ..., xs[n-1], each position once; for
\* n = 1 it is xs[0] itself and no node is created.  For n = 0 the call reads
\* the element at xs.end(): it creates no node, and dies or returns whatever
\* that read yields.
C23_PlusBuildsTree ==
    ecall.op = "plus" =>
        LET n == Len(args.xs) IN
        /\ n >= 1 => /\ ecall.ended = "returned"
                     /\ ~ecall.endRead
                     /\ IsBinaryPlusTree(ecall.result)
                     /\ PlusNodes(ecall.result) = n - 1
                     /\ Leaves(ecall.result) = args.xs
        /\ n = 1 => ecall.result = args.xs[1]
        /\ n = 0 => /\ ecall.endRead
                    /\ ecall.ended \in {"crashed", "returned"}
                    /\ ecall.result = EndElement

\* plus has returned its tree for a list of three expressions, two of them
\* the same
C23_Witness ==
    /\ ecall.op = "plus"
    /\ Len(args.xs) = 3
    /\ args.xs[1] = args.xs[3]
    /\ args.xs[1] # args.xs[2]
    /\ ecall.result = Function("Plus", <<args.xs[1],
                                         Function("Plus", <<args.xs[2], args.xs[3]>>)>>)

=============================================================================
